---- MODULE Spec2Model ----
(***************************************************************************)
(* A model of shibukawa/urlf: the template parser (parser.go) and the      *)
(* formatter TryCustomFormatter with its cache and overwrite step.         *)
(*                                                                         *)
(* Strings are sequences of one-character strings, so that prefixes,       *)
(* suffixes, slicing and concatenation are computed as the Go code does.   *)
(* One call of the formatter is a run of the state machine: the cache      *)
(* lookup, the parser loop (one action per iteration), overwrite, and the  *)
(* binding of scheme, host, port, path, query and fragment in the order    *)
(* the code performs them.  A Go runtime panic (index out of range, nil    *)
(* pointer dereference) ends the run in pc = "panic".  The text of error   *)
(* messages is not modelled, only which error is returned.                 *)
(***************************************************************************)
EXTENDS Integers, Sequences, FiniteSets, TLC

VARIABLES
    pattern,      \* the template string handed to the formatter (format)
    args,         \* the positional arguments (args ...any)
    opt,          \* the Opt the formatter was built with
    cache,        \* cache: template string -> *parseResult
    pc,           \* position in TryCustomFormatter / parse
    tokens,       \* parse: the tokens not consumed yet
    step,         \* parse: the parser state
    result,       \* parse: the parseResult under construction
    queryKeyStr,  \* parse: the literal key waiting for its value
    iters,        \* parse: iterations of the loop executed so far
    ot,           \* the original template: the cached or freshly parsed one
    t,            \* the template after overwrite
    r,            \* the url.URL under construction
    paths,        \* the local []string of path pieces
    query,        \* the local url.Values
    qi,           \* index of the next entry of t.queries
    pending,      \* keys of a query set still to be merged (range over a map)
    out           \* what the call returned

vars == <<pattern, args, opt, cache, pc, tokens, step, result, queryKeyStr,
          iters, ot, t, r, paths, query, qi, pending, out>>

(***************************************************************************)
(* Strings                                                                 *)
(***************************************************************************)

\* The characters the model uses, in byte order.
CharOrder == <<"#", "&", "-", ".", "/", "0", "1", "2", "3", "4", "5", "6", "7",
               "8", "9", ":", "=", "?", "@", "_", "a", "b", "f", "h", "j", "k",
               "o", "p", "s", "u", "x", "{", "}">>

Ord(c) == CHOOSE i \in 1..Len(CharOrder) : CharOrder[i] = c

Digits == <<"0", "1", "2", "3", "4", "5", "6", "7", "8", "9">>

IsDigit(c) == \E i \in 1..10 : Digits[i] = c

DigitVal(c) == (CHOOSE i \in 1..10 : Digits[i] = c) - 1

Drop(s, n) == IF n >= Len(s) THEN <<>> ELSE SubSeq(s, n + 1, Len(s))

HasPrefixAt(s, i, p) ==
    /\ i + Len(p) - 1 <= Len(s)
    /\ SubSeq(s, i, i + Len(p) - 1) = p

HasPrefix(s, p) == HasPrefixAt(s, 1, p)

HasSuffix(s, p) ==
    /\ Len(p) <= Len(s)
    /\ SubSeq(s, Len(s) - Len(p) + 1, Len(s)) = p

\* Byte-wise string order, as sort.Strings uses it.
RECURSIVE StrLess(_, _)
StrLess(a, b) ==
    IF b = <<>> THEN FALSE
    ELSE IF a = <<>> THEN TRUE
    ELSE IF Head(a) = Head(b) THEN StrLess(Tail(a), Tail(b))
    ELSE Ord(Head(a)) < Ord(Head(b))

RECURSIVE NatDigits(_)
NatDigits(n) ==
    IF n < 10 THEN <<Digits[n + 1]>>
    ELSE NatDigits(n \div 10) \o <<Digits[(n % 10) + 1]>>

\* strconv.Itoa
Itoa(n) == IF n < 0 THEN <<"-">> \o NatDigits(0 - n) ELSE NatDigits(n)

RECURSIVE DigitsVal(_, _)
DigitsVal(s, acc) ==
    IF s = <<>> THEN acc ELSE DigitsVal(Tail(s), acc * 10 + DigitVal(Head(s)))

\* strconv.Atoi: [ok, n]; an optional sign followed by at least one digit.
Atoi(s) ==
    LET body == IF s # <<>> /\ Head(s) \in {"-", "+"} THEN Tail(s) ELSE s
    IN  IF body = <<>> \/ \E i \in 1..Len(body) : ~IsDigit(body[i])
        THEN [ok |-> FALSE, n |-> 0]
        ELSE [ok |-> TRUE,
              n  |-> IF Head(s) = "-" THEN 0 - DigitsVal(body, 0)
                     ELSE DigitsVal(body, 0)]

(***************************************************************************)
(* parser.go: tokens                                                       *)
(***************************************************************************)

SepScheme == <<":", "/", "/">>
SepSlashes == <<"/", "/">>
SepColon == <<":">>
SepSlash == <<"/">>
SepQuestion == <<"?">>
SepEqual == <<"=">>
SepAmp == <<"&">>
SepHash == <<"#">>
SepAt == <<"@">>
Marker == <<"{", "}">>

SepChars == {":", "/", "?", "&", "=", "#", "@"}

\* invalidSeparator: for each step, the separators mapped to true.
invalidSeparator ==
    [protocol   |-> {SepScheme, SepColon, SepQuestion, SepEqual, SepAmp, SepHash, SepAt},
     path       |-> {SepScheme, SepSlashes, SepColon, SepEqual, SepAmp, SepAt},
     query      |-> {SepScheme, SepSlashes, SepColon, SepSlash, SepEqual, SepAmp, SepAt},
     queryKey   |-> {SepScheme, SepSlashes, SepColon, SepSlash, SepQuestion, SepAt},
     queryValue |-> {SepScheme, SepSlashes, SepColon, SepSlash, SepQuestion, SepEqual, SepAt}]

\* splitterPattern with the one-character alternative first.
splitterPatternShortFirst(s, i) ==
    IF s[i] \in SepChars THEN <<s[i]>>
    ELSE IF HasPrefixAt(s, i, SepScheme) THEN SepScheme
    ELSE IF HasPrefixAt(s, i, SepSlashes) THEN SepSlashes
    ELSE IF HasPrefixAt(s, i, Marker) THEN Marker
    ELSE <<>>

\* splitterPattern at position i: the text of the first alternative that
\* matches there, <<>> when none does.
splitterPattern(s, i) ==
    IF HasPrefixAt(s, i, SepScheme) THEN SepScheme
    ELSE IF HasPrefixAt(s, i, SepSlashes) THEN SepSlashes
    ELSE IF s[i] \in SepChars THEN <<s[i]>>
    ELSE IF HasPrefixAt(s, i, Marker) THEN Marker
    ELSE <<>>

\* FindAllStringIndex: the leftmost non-overlapping matches from position i
\* on, each as <<first, last + 1>> (1-based).
RECURSIVE FindAllStringIndex(_, _)
FindAllStringIndex(s, i) ==
    IF i > Len(s) THEN <<>>
    ELSE LET m == splitterPattern(s, i)
         IN  IF m = <<>> THEN FindAllStringIndex(s, i + 1)
             ELSE <<(<<i, i + Len(m)>>)>> \o FindAllStringIndex(s, i + Len(m))

StaticToken(text) == [tokenType |-> "static", text |-> text, index |-> 0]
SeparatorToken(text) == [tokenType |-> "separator", text |-> text, index |-> 0]
PlaceholderToken(n) == [tokenType |-> "placeholder", text |-> <<>>, index |-> n]

\* The loop over the matches: i is the end of the previous match,
\* placeholderIndex the number of placeholders seen.
RECURSIVE TokenLoop(_, _, _, _)
TokenLoop(s, matches, i, placeholderIndex) ==
    IF matches = <<>>
    THEN IF i <= Len(s) THEN <<StaticToken(SubSeq(s, i, Len(s)))>> ELSE <<>>
    ELSE LET m == Head(matches)
             before == IF i < m[1] THEN <<StaticToken(SubSeq(s, i, m[1] - 1))>>
                       ELSE <<>>
             text == SubSeq(s, m[1], m[2] - 1)
         IN  IF text = Marker
             THEN before \o <<PlaceholderToken(placeholderIndex)>>
                  \o TokenLoop(s, Tail(matches), m[2], placeholderIndex + 1)
             ELSE before \o <<SeparatorToken(text)>>
                  \o TokenLoop(s, Tail(matches), m[2], placeholderIndex)

Tokenize(s) == TokenLoop(s, FindAllStringIndex(s, 1), 1, 0)

(***************************************************************************)
(* parser.go: parse                                                        *)
(***************************************************************************)

NilPart == [partType |-> "nil", index |-> 0, value |-> <<>>]
StaticPart(v) == [partType |-> "static", index |-> 0, value |-> v]
ParamPart(i) == [partType |-> "param", index |-> i, value |-> <<>>]

QueryPart(k, v) == [key |-> k, value |-> v]

\* &parseResult{}
EmptyResult ==
    [protocol |-> NilPart, hostname |-> NilPart, port |-> NilPart,
     paths |-> <<>>, queries |-> <<>>, fragment |-> NilPart,
     username |-> <<>>, password |-> <<>>]

\* appendPath that always adds a new entry.
appendPathNoCoalesce(ps, pathString) == Append(ps, StaticPart(pathString))

\* The closure appendPath, on the paths list ps.
appendPath(ps, pathString) ==
    IF Len(ps) = 0 THEN <<StaticPart(pathString)>>
    ELSE LET l == ps[Len(ps)]
         IN  IF l.partType = "static"
             THEN [ps EXCEPT ![Len(ps)] = StaticPart(l.value \o pathString)]
             ELSE Append(ps, StaticPart(pathString))

\* The parser's local state between two iterations of its loop; err is set
\* by an iteration that returns an error.
ParserState(tk, st, res, qk) ==
    [tokens |-> tk, step |-> st, result |-> res, queryKeyStr |-> qk, err |-> FALSE]

Fail(p) == [p EXCEPT !.err = TRUE]

StepProtocol(p) ==
    LET tk == p.tokens
        p0 == tk[1]
    IN  IF Len(tk) > 1
        THEN LET s == tk[2]
             IN  IF s.tokenType = "separator" /\ s.text = SepScheme
                 THEN IF p0.tokenType = "placeholder"
                      THEN [p EXCEPT !.result.protocol = ParamPart(p0.index),
                                     !.step = "hostname", !.tokens = Drop(tk, 2)]
                      ELSE IF p0.tokenType = "static" /\ p0.text = <<>>
                      THEN Fail(p)
                      ELSE [p EXCEPT !.result.protocol = StaticPart(p0.text),
                                     !.step = "hostname", !.tokens = Drop(tk, 2)]
                 ELSE IF p0.tokenType = "separator"
                 THEN IF p0.text \in invalidSeparator.protocol
                      THEN Fail(p)
                      ELSE IF p0.text = SepSlashes
                      THEN [p EXCEPT !.step = "hostname", !.tokens = Drop(tk, 1)]
                      ELSE [p EXCEPT !.step = "path"]
                 ELSE [p EXCEPT !.step = "path"]
        ELSE p

StepHostname(p) ==
    LET tk == p.tokens
        h == tk[1]
    IN  IF h.tokenType = "separator" THEN Fail(p)
        ELSE [p EXCEPT !.result.hostname =
                           IF h.tokenType = "placeholder" THEN ParamPart(h.index)
                           ELSE StaticPart(h.text),
                       !.tokens = Drop(tk, 1), !.step = "port"]

MinPort == 1
MaxPort == 65535

\* StepPort without the range check on a literal port.
StepPortAnyNumber(p) ==
    LET tk == p.tokens
        ps == tk[1]
    IN  IF ps.tokenType = "separator" /\ ps.text = SepColon
        THEN IF Len(tk) > 1
             THEN LET pt == tk[2]
                      pn == Atoi(pt.text)
                  IN  CASE pt.tokenType = "separator" -> Fail(p)
                        [] pt.tokenType = "placeholder" ->
                             [p EXCEPT !.result.port = ParamPart(pt.index),
                                       !.tokens = Drop(tk, 2), !.step = "path"]
                        [] pt.tokenType = "static" ->
                             IF ~pn.ok THEN Fail(p)
                             ELSE [p EXCEPT !.result.port = StaticPart(pn.n % 65536),
                                            !.tokens = Drop(tk, 2), !.step = "path"]
             ELSE Fail(p)
        ELSE [p EXCEPT !.step = "path"]

StepPort(p) ==
    LET tk == p.tokens
        ps == tk[1]
    IN  IF ps.tokenType = "separator" /\ ps.text = SepColon
        THEN IF Len(tk) > 1
             THEN LET pt == tk[2]
                      pn == Atoi(pt.text)
                  IN  CASE pt.tokenType = "separator" -> Fail(p)
                        [] pt.tokenType = "placeholder" ->
                             [p EXCEPT !.result.port = ParamPart(pt.index),
                                       !.tokens = Drop(tk, 2), !.step = "path"]
                        [] pt.tokenType = "static" ->
                             IF ~pn.ok THEN Fail(p)
                             ELSE IF pn.n < MinPort \/ pn.n > MaxPort THEN Fail(p)
                             ELSE [p EXCEPT !.result.port = StaticPart(pn.n % 65536),
                                            !.tokens = Drop(tk, 2), !.step = "path"]
             ELSE Fail(p)
        ELSE [p EXCEPT !.step = "path"]

\* StepPath that takes text as the first path content after an authority.
StepPathAnyText(p) ==
    LET tk == p.tokens
        s == tk[1]
        res == p.result
    IN  CASE s.tokenType = "placeholder" -> Fail(p)
          [] s.tokenType = "static" ->
               IF FALSE
               THEN Fail(p)
               ELSE [p EXCEPT !.result.paths = appendPath(res.paths, s.text),
                              !.tokens = Drop(tk, 1)]
          [] s.tokenType = "separator" ->
               IF s.text \in invalidSeparator.path THEN Fail(p)
               ELSE IF s.text # SepSlash THEN [p EXCEPT !.step = "query"]
               ELSE IF Len(tk) > 1
               THEN LET n == tk[2]
                    IN  CASE n.tokenType = "separator" ->
                               [p EXCEPT !.result.paths = appendPath(res.paths, SepSlash),
                                         !.step = "query", !.tokens = Drop(tk, 1)]
                          [] n.tokenType = "placeholder" ->
                               [p EXCEPT !.result.paths =
                                             Append(appendPath(res.paths, SepSlash),
                                                    ParamPart(n.index)),
                                         !.tokens = Drop(tk, 2)]
                          [] n.tokenType = "static" ->
                               [p EXCEPT !.result.paths =
                                             appendPath(res.paths, SepSlash \o n.text),
                                         !.tokens = Drop(tk, 2)]
               ELSE [p EXCEPT !.result.paths = appendPath(res.paths, SepSlash),
                              !.tokens = Drop(tk, 1), !.step = "invalid"]

StepPath(p) ==
    LET tk == p.tokens
        s == tk[1]
        res == p.result
    IN  CASE s.tokenType = "placeholder" -> Fail(p)
          [] s.tokenType = "static" ->
               IF (res.protocol.partType # "nil" \/ res.hostname.partType # "nil")
                  /\ Len(res.paths) = 0
               THEN Fail(p)
               ELSE [p EXCEPT !.result.paths = appendPath(res.paths, s.text),
                              !.tokens = Drop(tk, 1)]
          [] s.tokenType = "separator" ->
               IF s.text \in invalidSeparator.path THEN Fail(p)
               ELSE IF s.text # SepSlash THEN [p EXCEPT !.step = "query"]
               ELSE IF Len(tk) > 1
               THEN LET n == tk[2]
                    IN  CASE n.tokenType = "separator" ->
                               [p EXCEPT !.result.paths = appendPath(res.paths, SepSlash),
                                         !.step = "query", !.tokens = Drop(tk, 1)]
                          [] n.tokenType = "placeholder" ->
                               [p EXCEPT !.result.paths =
                                             Append(appendPath(res.paths, SepSlash),
                                                    ParamPart(n.index)),
                                         !.tokens = Drop(tk, 2)]
                          [] n.tokenType = "static" ->
                               [p EXCEPT !.result.paths =
                                             appendPath(res.paths, SepSlash \o n.text),
                                         !.tokens = Drop(tk, 2)]
               ELSE [p EXCEPT !.result.paths = appendPath(res.paths, SepSlash),
                              !.tokens = Drop(tk, 1), !.step = "invalid"]

StepQuery(p) ==
    LET tk == p.tokens
        s == tk[1]
    IN  IF s.tokenType = "separator"
        THEN IF s.text \in invalidSeparator.query THEN Fail(p)
             ELSE [p EXCEPT !.step = IF s.text = SepQuestion THEN "queryKey"
                                     ELSE IF s.text = SepHash THEN "fragment"
                                     ELSE @,
                            !.tokens = Drop(tk, 1)]
        ELSE Fail(p)

StepQueryKey(p) ==
    LET tk == p.tokens
        qk == tk[1]
        res == p.result
        zero == QueryPart(qk.text, StaticPart(<<>>))
        set == QueryPart(<<>>, ParamPart(qk.index))
    IN  CASE qk.tokenType = "separator" -> Fail(p)
          [] qk.tokenType = "placeholder" ->
               IF Len(tk) > 1
               THEN LET s == tk[2]
                    IN  IF s.tokenType = "static" THEN Fail(p)
                        ELSE IF s.tokenType = "separator"
                                /\ s.text \in invalidSeparator.queryValue
                        THEN Fail(p)
                        ELSE [p EXCEPT !.step = IF s.tokenType = "separator"
                                                   /\ s.text = SepHash
                                                THEN "fragment" ELSE @,
                                       !.tokens = Drop(tk, 2),
                                       !.result.queries = Append(res.queries, set)]
               ELSE [p EXCEPT !.step = "invalid", !.tokens = Drop(tk, 1),
                              !.result.queries = Append(res.queries, set)]
          [] qk.tokenType = "static" ->
               IF Len(tk) > 1
               THEN LET s == tk[2]
                    IN  IF s.tokenType = "separator"
                        THEN IF s.text \in invalidSeparator.queryKey THEN Fail(p)
                             ELSE CASE s.text = SepEqual ->
                                         [p EXCEPT !.queryKeyStr = qk.text,
                                                   !.step = "queryValue",
                                                   !.tokens = Drop(tk, 2)]
                                    [] s.text = SepHash ->
                                         [p EXCEPT !.step = "fragment",
                                                   !.result.queries = Append(res.queries, zero),
                                                   !.tokens = Drop(tk, 2)]
                                    [] s.text = SepAmp ->
                                         [p EXCEPT !.result.queries = Append(res.queries, zero),
                                                   !.tokens = Drop(tk, 2)]
                        ELSE p
               ELSE [p EXCEPT !.result.queries = Append(res.queries, zero)]

\* StepQueryValue that goes back to the query step on "&".
StepQueryValueBackToQuery(p) ==
    LET tk == p.tokens
        qv == tk[1]
        res == p.result
        entry == QueryPart(p.queryKeyStr,
                           IF qv.tokenType = "placeholder" THEN ParamPart(qv.index)
                           ELSE StaticPart(qv.text))
    IN  IF qv.tokenType = "separator" THEN Fail(p)
        ELSE IF Len(tk) > 1
        THEN LET s == tk[2]
             IN  IF s.tokenType # "separator" THEN Fail(p)
                 ELSE IF s.text \in invalidSeparator.queryValue THEN Fail(p)
                 ELSE [p EXCEPT !.result.queries = Append(res.queries, entry),
                                !.step = IF s.text = SepAmp THEN "query"   
                                         ELSE IF s.text = SepHash THEN "fragment"
                                         ELSE @,
                                !.tokens = Drop(tk, 2)]
        ELSE [p EXCEPT !.result.queries = Append(res.queries, entry),
                       !.tokens = Drop(tk, 1)]

StepQueryValue(p) ==
    LET tk == p.tokens
        qv == tk[1]
        res == p.result
        entry == QueryPart(p.queryKeyStr,
                           IF qv.tokenType = "placeholder" THEN ParamPart(qv.index)
                           ELSE StaticPart(qv.text))
    IN  IF qv.tokenType = "separator" THEN Fail(p)
        ELSE IF Len(tk) > 1
        THEN LET s == tk[2]
             IN  IF s.tokenType # "separator" THEN Fail(p)
                 ELSE IF s.text \in invalidSeparator.queryValue THEN Fail(p)
                 ELSE [p EXCEPT !.result.queries = Append(res.queries, entry),
                                !.step = IF s.text = SepAmp THEN "queryKey"
                                         ELSE IF s.text = SepHash THEN "fragment"
                                         ELSE @,
                                !.tokens = Drop(tk, 2)]
        ELSE [p EXCEPT !.result.queries = Append(res.queries, entry),
                       !.tokens = Drop(tk, 1)]

\* StepFragment that stays in the fragment step.
StepFragmentStays(p) ==
    LET tk == p.tokens
        f == tk[1]
    IN  IF f.tokenType = "separator" THEN Fail(p)
        ELSE [p EXCEPT !.result.fragment =
                           IF f.tokenType = "static" THEN StaticPart(f.text)
                           ELSE ParamPart(f.index),
                       !.tokens = Drop(tk, 1)]

StepFragment(p) ==
    LET tk == p.tokens
        f == tk[1]
    IN  IF f.tokenType = "separator" THEN Fail(p)
        ELSE [p EXCEPT !.result.fragment =
                           IF f.tokenType = "static" THEN StaticPart(f.text)
                           ELSE ParamPart(f.index),
                       !.tokens = Drop(tk, 1), !.step = "invalid"]

StepInvalid(p) == Fail(p)

\* One iteration of the loop "for len(tokens) > 0 { switch step ... }".
ParseIteration(p) ==
    CASE p.step = "protocol" -> StepProtocol(p)
      [] p.step = "hostname" -> StepHostname(p)
      [] p.step = "port" -> StepPort(p)
      [] p.step = "path" -> StepPath(p)
      [] p.step = "query" -> StepQuery(p)
      [] p.step = "queryKey" -> StepQueryKey(p)
      [] p.step = "queryValue" -> StepQueryValue(p)
      [] p.step = "fragment" -> StepFragment(p)
      [] p.step = "invalid" -> StepInvalid(p)

(***************************************************************************)
(* The formatter: argument values                                          *)
(***************************************************************************)

\* A value of type any.  A *string or *int that is nil is a typed nil: the
\* type switch selects its pointer case, not "case nil".
NilVal == [t |-> "nil", v |-> <<>>]
StrVal(s) == [t |-> "string", v |-> s]
PStrVal(s) == [t |-> "*string", v |-> s]
NilPStr == [t |-> "nil*string", v |-> <<>>]
IntVal(n) == [t |-> "int", v |-> n]
PIntVal(n) == [t |-> "*int", v |-> n]
NilPInt == [t |-> "nil*int", v |-> 0]
SliceVal(l) == [t |-> "slice", v |-> l]
ValuesVal(f) == [t |-> "url.Values", v |-> f]
OtherVal == [t |-> "other", v |-> <<>>]

\* What a piece of the formatter does: it goes on with a value, returns an
\* error, or panics.
Ok(x) == [kind |-> "ok", val |-> x]
Err(e) == [kind |-> "error", val |-> e]
Panic == [kind |-> "panic", val |-> "runtime error"]

ErrParseFailed == "ErrParseFailed"
ErrFormatFailed == "ErrFormatFailed"

\* args[index], with Go's bounds check.
InRange(a, index) == index >= 0 /\ index < Len(a)
ArgAt(a, index) == a[index + 1]

(***************************************************************************)
(* url.Values and url.URL                                                  *)
(***************************************************************************)

EmptyValues == [k \in {} |-> <<>>]

ValuesAdd(q, k, v) ==
    [x \in DOMAIN q \cup {k} |->
        IF x = k THEN (IF k \in DOMAIN q THEN Append(q[k], v) ELSE <<v>>) ELSE q[x]]

\* Values.Set that keeps the values the key had.
ValuesSetKeepsOld(q, k, v) ==
    [x \in DOMAIN q \cup {k} |->
        IF x = k THEN (IF k \in DOMAIN q THEN Append(q[k], v) ELSE <<v>>) ELSE q[x]]

\* Values.Set that drops the other keys.
ValuesSetOnly(q, k, v) == [x \in {k} |-> <<v>>]

ValuesSet(q, k, v) ==
    [x \in DOMAIN q \cup {k} |-> IF x = k THEN <<v>> ELSE q[x]]

RECURSIVE SortedKeys(_)
SortedKeys(S) ==
    IF S = {} THEN <<>>
    ELSE LET m == CHOOSE x \in S : \A y \in S \ {x} : StrLess(x, y)
         IN  <<m>> \o SortedKeys(S \ {m})

PairsOf(k, vs) == [i \in 1..Len(vs) |-> <<k, vs[i]>>]

RECURSIVE EncodeKeys(_, _)
EncodeKeys(q, keys) ==
    IF keys = <<>> THEN <<>>
    ELSE PairsOf(Head(keys), q[Head(keys)]) \o EncodeKeys(q, Tail(keys))

\* Values.Encode: the key=value pairs, sorted by key, each key's values in
\* their order (the escaping of the pairs is the URL composer's).
Encode(q) == EncodeKeys(q, SortedKeys(DOMAIN q))

NoUser == [set |-> FALSE, username |-> <<>>, password |-> <<>>]

\* &url.URL{}
EmptyURL ==
    [Scheme |-> <<>>, User |-> NoUser, Host |-> <<>>, Path |-> <<>>,
     RawQuery |-> <<>>, Fragment |-> <<>>]

\* The text of an encoded query: key=value, joined by "&" (no character of
\* the model needs escaping).
RECURSIVE EncodeText(_)
EncodeText(pairs) ==
    IF pairs = <<>> THEN <<>>
    ELSE Head(pairs)[1] \o SepEqual \o Head(pairs)[2]
         \o (IF Len(pairs) > 1 THEN SepAmp ELSE <<>>) \o EncodeText(Tail(pairs))

\* s has the character c.
Contains(s, c) == \E i \in 1..Len(s) : s[i] = c

\* The first segment of a path: the text before its first slash.
RECURSIVE FirstSegment(_)
FirstSegment(path) ==
    IF path = <<>> \/ Head(path) = "/" THEN <<>>
    ELSE <<Head(path)>> \o FirstSegment(Tail(path))

\* URL.String(): scheme ":", "//" userinfo "@" host, path, "?" query,
\* "#" fragment.
URLString(u) ==
    LET scheme == IF u.Scheme # <<>> THEN u.Scheme \o SepColon ELSE <<>>
        user == IF u.User.set
                THEN u.User.username \o SepColon \o u.User.password \o SepAt
                ELSE <<>>
        authority ==
            IF u.Scheme # <<>> \/ u.Host # <<>> \/ u.User.set
            THEN (IF u.Host # <<>> \/ u.Path # <<>> \/ u.User.set
                  THEN SepSlashes ELSE <<>>) \o user \o u.Host
            ELSE <<>>
        rooted == IF u.Path # <<>> /\ Head(u.Path) # "/" /\ u.Host # <<>>
                  THEN SepSlash ELSE <<>>
        dot == IF scheme \o authority \o rooted = <<>>
                  /\ Contains(FirstSegment(u.Path), ":")
               THEN <<".", "/">> ELSE <<>>
    IN  scheme \o authority \o rooted \o dot \o u.Path
          \o (IF u.RawQuery # <<>> THEN SepQuestion \o EncodeText(u.RawQuery) ELSE <<>>)
          \o (IF u.Fragment # <<>> THEN SepHash \o u.Fragment ELSE <<>>)

(***************************************************************************)
(* overwrite                                                               *)
(***************************************************************************)

Opt(h, po, pr, u, pw) ==
    [Hostname |-> h, Port |-> po, Protocol |-> pr, Username |-> u, Password |-> pw]

NoOpt == Opt(<<>>, 0, <<>>, <<>>, <<>>)

WordChars == {"0", "1", "2", "3", "4", "5", "6", "7", "8", "9", "_",
              "a", "b", "f", "h", "j", "k", "o", "p", "s", "u", "x"}

Chars == {CharOrder[i] : i \in 1..Len(CharOrder)}

\* The length of the longest run of characters of C in s from position i.
RECURSIVE RunLength(_, _, _)
RunLength(s, i, C) ==
    IF i <= Len(s) /\ s[i] \in C THEN 1 + RunLength(s, i + 1, C) ELSE 0

DigitChars == {Digits[i] : i \in 1..10}
NotColon == Chars \ {":"}

\* The length of the group "\w+://" at the start of s; 0 when the group
\* takes no part in the match, which is when no "\w+://" starts s or what
\* follows it cannot start a hostname.
ProtocolGroup(s) ==
    LET w == RunLength(s, 1, WordChars)
    IN  IF w >= 1 /\ HasPrefixAt(s, w + 1, SepScheme) /\ w + 4 <= Len(s)
           /\ s[w + 4] # ":"
        THEN w + 3 ELSE 0

\* The length of the group ":\d+" at position i of s, 0 when it is absent.
PortGroup(s, i) ==
    IF i <= Len(s) /\ s[i] = ":" /\ RunLength(s, i + 1, DigitChars) > 0
    THEN 1 + RunLength(s, i + 1, DigitChars) ELSE 0

\* The groups of a match whose protocol group has length pl and whose
\* hostname, the longest run without ':', has length hl.
Submatch(s, pl, hl) ==
    IF hl = 0 THEN [matched |-> FALSE]
    ELSE [matched |-> TRUE,
          protocol |-> SubSeq(s, 1, pl),
          hostname |-> SubSeq(s, pl + 1, pl + hl),
          port |-> SubSeq(s, pl + hl + 1, pl + hl + PortGroup(s, pl + hl + 1))]

\* hostPattern.FindStringSubmatch(s): the groups protocol, hostname, port,
\* or no match.
hostPattern(s) ==
    Submatch(s, ProtocolGroup(s), RunLength(s, ProtocolGroup(s) + 1, NotColon))

MaxUint16 == 65535

\* strconv.ParseUint(s, 10, 16) on a string of digits.
ParseUint16(s) ==
    IF DigitsVal(s, 0) > MaxUint16 THEN [ok |-> FALSE, n |-> MaxUint16]
    ELSE [ok |-> TRUE, n |-> DigitsVal(s, 0)]

\* overwrite without the check that Username and Password come together.
overwriteMatchAnyCredentials(src, o, match) ==
    LET fromHost == o.Hostname # <<>>
    IN  IF fromHost /\ ~match.matched THEN Panic
        ELSE IF fromHost /\ match.port # <<>> /\ ~ParseUint16(Tail(match.port)).ok
        THEN Err(ErrParseFailed)
        ELSE Ok([protocol |->
                     IF o.Protocol # <<>> THEN StaticPart(o.Protocol)
                     ELSE IF fromHost /\ match.protocol # <<>>
                     THEN StaticPart(SubSeq(match.protocol, 1, Len(match.protocol) - 3))
                     ELSE src.protocol,
                 hostname |->
                     IF fromHost /\ match.hostname # <<>>
                     THEN StaticPart(match.hostname)
                     ELSE src.hostname,
                 port |->
                     IF o.Port # 0 THEN StaticPart(o.Port)
                     ELSE IF fromHost /\ match.port # <<>>
                     THEN StaticPart(ParseUint16(Tail(match.port)).n)
                     ELSE src.port,
                 paths |-> src.paths,
                 queries |-> src.queries,
                 fragment |-> src.fragment,
                 username |-> IF o.Username # <<>> /\ o.Password # <<>>
                              THEN o.Username ELSE <<>>,
                 password |-> IF o.Username # <<>> /\ o.Password # <<>>
                              THEN o.Password ELSE <<>>])

\* overwrite with a Hostname option that clears the port it does not name.
overwriteMatchHostClearsPort(src, o, match) ==
    LET fromHost == o.Hostname # <<>>
    IN  IF fromHost /\ ~match.matched THEN Panic
        ELSE IF fromHost /\ match.port # <<>> /\ ~ParseUint16(Tail(match.port)).ok
        THEN Err(ErrParseFailed)
        ELSE IF (o.Username # <<>>) # (o.Password # <<>>) THEN Err(ErrParseFailed)
        ELSE Ok([protocol |->
                     IF o.Protocol # <<>> THEN StaticPart(o.Protocol)
                     ELSE IF fromHost /\ match.protocol # <<>>
                     THEN StaticPart(SubSeq(match.protocol, 1, Len(match.protocol) - 3))
                     ELSE src.protocol,
                 hostname |->
                     IF fromHost /\ match.hostname # <<>>
                     THEN StaticPart(match.hostname)
                     ELSE src.hostname,
                 port |->
                     IF o.Port # 0 THEN StaticPart(o.Port)
                     ELSE IF fromHost /\ match.port # <<>>
                     THEN StaticPart(ParseUint16(Tail(match.port)).n)
                     ELSE IF fromHost THEN NilPart
                     ELSE src.port,
                 paths |-> src.paths,
                 queries |-> src.queries,
                 fragment |-> src.fragment,
                 username |-> IF o.Username # <<>> /\ o.Password # <<>>
                              THEN o.Username ELSE <<>>,
                 password |-> IF o.Username # <<>> /\ o.Password # <<>>
                              THEN o.Password ELSE <<>>])

\* overwrite, given the match of hostPattern on opt.Hostname.
overwriteMatch(src, o, match) ==
    LET fromHost == o.Hostname # <<>>
    IN  IF fromHost /\ ~match.matched THEN Panic
        ELSE IF fromHost /\ match.port # <<>> /\ ~ParseUint16(Tail(match.port)).ok
        THEN Err(ErrParseFailed)
        ELSE IF (o.Username # <<>>) # (o.Password # <<>>) THEN Err(ErrParseFailed)
        ELSE Ok([protocol |->
                     IF o.Protocol # <<>> THEN StaticPart(o.Protocol)
                     ELSE IF fromHost /\ match.protocol # <<>>
                     THEN StaticPart(SubSeq(match.protocol, 1, Len(match.protocol) - 3))
                     ELSE src.protocol,
                 hostname |->
                     IF fromHost /\ match.hostname # <<>>
                     THEN StaticPart(match.hostname)
                     ELSE src.hostname,
                 port |->
                     IF o.Port # 0 THEN StaticPart(o.Port)
                     ELSE IF fromHost /\ match.port # <<>>
                     THEN StaticPart(ParseUint16(Tail(match.port)).n)
                     ELSE src.port,
                 paths |-> src.paths,
                 queries |-> src.queries,
                 fragment |-> src.fragment,
                 username |-> IF o.Username # <<>> /\ o.Password # <<>>
                              THEN o.Username ELSE <<>>,
                 password |-> IF o.Username # <<>> /\ o.Password # <<>>
                              THEN o.Password ELSE <<>>])

overwrite(src, o) == overwriteMatch(src, o, hostPattern(o.Hostname))

(***************************************************************************)
(* TryCustomFormatter: the bindings                                        *)
(***************************************************************************)

\* "Scheme": on the URL u, for template tp and arguments a.
BindScheme(tp, a, u) ==
    LET p == tp.protocol
        v == ArgAt(a, p.index)
    IN  IF p.partType = "nil" THEN Ok(u)
        ELSE IF p.partType = "static" THEN Ok([u EXCEPT !.Scheme = p.value])
        ELSE IF ~InRange(a, p.index) THEN Panic
        ELSE CASE v.t = "string" -> Ok([u EXCEPT !.Scheme = v.v])
               [] v.t = "*string" -> Ok([u EXCEPT !.Scheme = v.v])
               [] v.t = "nil*string" -> Panic
               [] v.t = "nil" -> Ok(u)
               [] OTHER -> Err(ErrFormatFailed)

\* BindHost with a null hostname that leaves the scheme in place.
BindHostKeepsScheme(tp, a, u) ==
    LET p == tp.hostname
        v == ArgAt(a, p.index)
    IN  IF p.partType = "nil" THEN Ok(u)
        ELSE IF p.partType = "static" THEN Ok([u EXCEPT !.Host = p.value])
        ELSE IF ~InRange(a, p.index) THEN Panic
        ELSE CASE v.t = "string" -> Ok([u EXCEPT !.Host = v.v])
               [] v.t = "*string" -> Ok([u EXCEPT !.Host = v.v])
               [] v.t = "nil*string" -> Panic
               [] v.t = "nil" -> Ok(u)
               [] OTHER -> Err(ErrFormatFailed)

\* "Host"
BindHost(tp, a, u) ==
    LET p == tp.hostname
        v == ArgAt(a, p.index)
    IN  IF p.partType = "nil" THEN Ok(u)
        ELSE IF p.partType = "static" THEN Ok([u EXCEPT !.Host = p.value])
        ELSE IF ~InRange(a, p.index) THEN Panic
        ELSE CASE v.t = "string" -> Ok([u EXCEPT !.Host = v.v])
               [] v.t = "*string" -> Ok([u EXCEPT !.Host = v.v])
               [] v.t = "nil*string" -> Panic
               [] v.t = "nil" -> Ok([u EXCEPT !.Scheme = <<>>])
               [] OTHER -> Err(ErrFormatFailed)

\* "Port"
BindPort(tp, a, u) ==
    LET p == tp.port
        v == ArgAt(a, p.index)
    IN  IF ~(p.partType # "nil" /\ u.Host # <<>>) THEN Ok(u)
        ELSE IF p.partType = "static"
        THEN Ok([u EXCEPT !.Host = @ \o SepColon \o Itoa(p.value)])
        ELSE IF ~InRange(a, p.index) THEN Panic
        ELSE CASE v.t = "int" -> Ok([u EXCEPT !.Host = @ \o SepColon \o Itoa(v.v)])
               [] v.t = "*int" -> Ok([u EXCEPT !.Host = @ \o SepColon \o Itoa(v.v)])
               [] v.t = "nil*int" -> Panic
               [] v.t = "nil" -> Ok(u)
               [] OTHER -> Err(ErrFormatFailed)

\* "Path": the pieces one element of a slice argument appends.
\* PathElement without the slash before the element.
PathElementNoSlash(ev) ==
    CASE ev.t = "string" -> Ok(<<ev.v>>)
      [] ev.t = "*string" -> Ok(<<ev.v>>)
      [] ev.t = "nil*string" -> Panic
      [] ev.t = "int" -> Ok(<<Itoa(ev.v)>>)
      [] ev.t = "*int" -> Ok(<<Itoa(ev.v)>>)
      [] ev.t = "nil*int" -> Panic
      [] OTHER -> Ok(<<>>)

PathElement(ev) ==
    CASE ev.t = "string" -> Ok(<<SepSlash \o ev.v>>)
      [] ev.t = "*string" -> Ok(<<SepSlash \o ev.v>>)
      [] ev.t = "nil*string" -> Panic
      [] ev.t = "int" -> Ok(<<SepSlash \o Itoa(ev.v)>>)
      [] ev.t = "*int" -> Ok(<<SepSlash \o Itoa(ev.v)>>)
      [] ev.t = "nil*int" -> Panic
      [] OTHER -> Ok(<<>>)

\* The loop over the elements of a slice argument, appending to acc.
RECURSIVE PathSlice(_, _)
PathSlice(l, acc) ==
    IF l = <<>> THEN Ok(acc)
    ELSE LET e == PathElement(Head(l))
         IN  IF e.kind # "ok" THEN e ELSE PathSlice(Tail(l), acc \o e.val)

\* The pieces appended for one entry p of t.paths.
PathPart(p, a, acc) ==
    LET v == ArgAt(a, p.index)
    IN  IF p.partType = "static" THEN Ok(Append(acc, p.value))
        ELSE IF ~InRange(a, p.index) THEN Panic
        ELSE CASE v.t = "string" -> Ok(Append(acc, v.v))
               [] v.t = "*string" -> Ok(Append(acc, v.v))
               [] v.t = "nil*string" -> Panic
               [] v.t = "int" -> Ok(Append(acc, Itoa(v.v)))
               [] v.t = "*int" -> Ok(Append(acc, Itoa(v.v)))
               [] v.t = "nil*int" -> Panic
               [] v.t = "nil" -> Ok(acc)
               [] v.t = "slice" -> PathSlice(v.v, acc)
               [] OTHER -> Ok(acc)

\* "for _, p := range t.paths"
RECURSIVE PathPieces(_, _, _)
PathPieces(parts, a, acc) ==
    IF parts = <<>> THEN Ok(acc)
    ELSE LET x == PathPart(Head(parts), a, acc)
         IN  IF x.kind # "ok" THEN x ELSE PathPieces(Tail(parts), a, x.val)

\* QueryElement that appends every element, the first included.
QueryElementAlwaysAdd(q, key, ev, i) ==
    CASE ev.t = "string" -> Ok(ValuesAdd(q, key, ev.v))
      [] ev.t = "*string" -> Ok(ValuesAdd(q, key, ev.v))
      [] ev.t = "nil*string" -> Panic
      [] ev.t = "int" -> Ok(ValuesAdd(q, key, Itoa(ev.v)))
      [] ev.t = "*int" -> Ok(ValuesAdd(q, key, Itoa(ev.v)))
      [] ev.t = "nil*int" -> Panic
      [] OTHER -> Ok(q)

\* updateQuery on element i (from 0) of a slice.
QueryElement(q, key, ev, i) ==
    LET put(s) == IF i = 0 THEN ValuesSet(q, key, s) ELSE ValuesAdd(q, key, s)
    IN  CASE ev.t = "string" -> Ok(put(ev.v))
          [] ev.t = "*string" -> Ok(put(ev.v))
          [] ev.t = "nil*string" -> Panic
          [] ev.t = "int" -> Ok(put(Itoa(ev.v)))
          [] ev.t = "*int" -> Ok(put(Itoa(ev.v)))
          [] ev.t = "nil*int" -> Panic
          [] OTHER -> Ok(q)

RECURSIVE QuerySlice(_, _, _, _)
QuerySlice(q, key, l, i) ==
    IF i >= Len(l) THEN Ok(q)
    ELSE LET x == QueryElement(q, key, l[i + 1], i)
         IN  IF x.kind # "ok" THEN x ELSE QuerySlice(x.val, key, l, i + 1)

\* updateQuery that records an empty value for nil.
updateQueryNilAddsEmpty(q, key, value) ==
    CASE value.t = "string" -> Ok(ValuesAdd(q, key, value.v))
      [] value.t = "*string" -> Ok(ValuesAdd(q, key, value.v))
      [] value.t = "nil*string" -> Panic
      [] value.t = "int" -> Ok(ValuesAdd(q, key, Itoa(value.v)))
      [] value.t = "*int" -> Ok(ValuesAdd(q, key, Itoa(value.v)))
      [] value.t = "nil*int" -> Panic
      [] value.t = "nil" -> Ok(ValuesAdd(q, key, <<>>))
      [] value.t = "slice" -> QuerySlice(q, key, value.v, 0)
      [] OTHER -> Err(ErrFormatFailed)

\* The closure updateQuery, on the url.Values q.
updateQuery(q, key, value) ==
    CASE value.t = "string" -> Ok(ValuesAdd(q, key, value.v))
      [] value.t = "*string" -> Ok(ValuesAdd(q, key, value.v))
      [] value.t = "nil*string" -> Panic
      [] value.t = "int" -> Ok(ValuesAdd(q, key, Itoa(value.v)))
      [] value.t = "*int" -> Ok(ValuesAdd(q, key, Itoa(value.v)))
      [] value.t = "nil*int" -> Panic
      [] value.t = "nil" -> Ok(q)
      [] value.t = "slice" -> QuerySlice(q, key, value.v, 0)
      [] OTHER -> Err(ErrFormatFailed)

\* A []string of a url.Values, as the slice updateQuery receives.
StringSlice(vs) == SliceVal([i \in 1..Len(vs) |-> StrVal(vs[i])])

\* The fragment binding.
BindFragment(tp, a, u) ==
    LET p == tp.fragment
        v == ArgAt(a, p.index)
    IN  IF p.partType = "nil" THEN Ok(u)
        ELSE IF p.partType = "static" THEN Ok([u EXCEPT !.Fragment = p.value])
        ELSE IF ~InRange(a, p.index) THEN Panic
        ELSE CASE v.t = "string" -> Ok([u EXCEPT !.Fragment = v.v])
               [] v.t = "*string" -> Ok([u EXCEPT !.Fragment = v.v])
               [] v.t = "nil*string" -> Panic
               [] v.t = "nil" -> Ok(u)
               [] OTHER -> Err(ErrFormatFailed)

\* The pieces concatenated, whatever slashes meet.
RECURSIVE JoinPathsNoDedup(_, _)
JoinPathsNoDedup(path, pieces) ==
    IF pieces = <<>> THEN path
    ELSE JoinPathsNoDedup(path \o Head(pieces), Tail(pieces))

\* "for _, p := range paths": the pieces joined onto path.
RECURSIVE JoinPaths(_, _)
JoinPaths(path, pieces) ==
    IF pieces = <<>> THEN path
    ELSE LET p == Head(pieces)
         IN  IF HasSuffix(path, SepSlash) /\ HasPrefix(p, SepSlash)
             THEN JoinPaths(path \o Tail(p), Tail(pieces))
             ELSE JoinPaths(path \o p, Tail(pieces))

(***************************************************************************)
(* TryCustomFormatter: one call                                            *)
(***************************************************************************)

\* The most iterations of the parser loop the model follows.
MaxIter == 16

NoReturn == [returned |-> FALSE, url |-> EmptyURL, err |-> "nil"]
Returned(u, e) == [returned |-> TRUE, url |-> u, err |-> e]

\* Where the call is after a piece that ended as x, and what it returned.
PcAfter(x, next) ==
    CASE x.kind = "ok" -> next
      [] x.kind = "error" -> "done"
      [] x.kind = "panic" -> "panic"

OutAfter(x) == IF x.kind = "error" THEN Returned(EmptyURL, x.val) ELSE out

\* cache.Load(format); on a miss parse starts with the tokens of format.
LoadOrParse ==
    /\ pc = "start"
    /\ IF pattern \in DOMAIN cache
       THEN /\ ot' = cache[pattern]
            /\ pc' = "overwrite"
            /\ UNCHANGED <<tokens, step, result, queryKeyStr, iters>>
       ELSE /\ tokens' = Tokenize(pattern)
            /\ step' = "protocol"
            /\ result' = EmptyResult
            /\ queryKeyStr' = <<>>
            /\ iters' = 0
            /\ pc' = "parse"
            /\ ot' = ot
    /\ UNCHANGED <<pattern, args, opt, cache, t, r, paths, query, qi, pending, out>>

\* One iteration of the parser loop.
ParseLoop ==
    /\ pc = "parse"
    /\ Len(tokens) > 0
    /\ iters < MaxIter
    /\ LET p == ParseIteration(ParserState(tokens, step, result, queryKeyStr))
       IN  /\ tokens' = p.tokens
           /\ step' = p.step
           /\ result' = p.result
           /\ queryKeyStr' = p.queryKeyStr
           /\ pc' = IF p.err THEN "done" ELSE "parse"
           /\ out' = IF p.err THEN Returned(EmptyURL, ErrParseFailed) ELSE out
    /\ iters' = iters + 1
    /\ UNCHANGED <<pattern, args, opt, cache, ot, t, r, paths, query, qi, pending>>

\* The loop ends, and a fresh parseResult is stored instead of the parsed one.
ParseReturnStoresEmpty ==
    /\ pc = "parse"
    /\ Len(tokens) = 0
    /\ ot' = result
    /\ cache' = (pattern :> EmptyResult) @@ cache
    /\ pc' = "overwrite"
    /\ UNCHANGED <<pattern, args, opt, tokens, step, result, queryKeyStr, iters,
                   t, r, paths, query, qi, pending, out>>

\* The loop ends: parse returns result, which is stored in the cache.
ParseReturn ==
    /\ pc = "parse"
    /\ Len(tokens) = 0
    /\ ot' = result
    /\ cache' = (pattern :> result) @@ cache
    /\ pc' = "overwrite"
    /\ UNCHANGED <<pattern, args, opt, tokens, step, result, queryKeyStr, iters,
                   t, r, paths, query, qi, pending, out>>

\* overwrite that writes the new template over the cached one.
OverwriteInPlace ==
    /\ pc = "overwrite"
    /\ LET x == overwrite(ot, opt)
       IN  /\ t' = IF x.kind = "ok" THEN x.val ELSE t
           /\ cache' = IF x.kind = "ok" THEN (pattern :> x.val) @@ cache ELSE cache
           /\ pc' = PcAfter(x, "scheme")
           /\ out' = OutAfter(x)
    /\ r' = EmptyURL
    /\ UNCHANGED <<pattern, args, opt, tokens, step, result, queryKeyStr,
                   iters, ot, paths, query, qi, pending>>

Overwrite ==
    /\ pc = "overwrite"
    /\ LET x == overwrite(ot, opt)
       IN  /\ t' = IF x.kind = "ok" THEN x.val ELSE t
           /\ pc' = PcAfter(x, "scheme")
           /\ out' = OutAfter(x)
    /\ r' = EmptyURL
    /\ UNCHANGED <<pattern, args, opt, cache, tokens, step, result, queryKeyStr,
                   iters, ot, paths, query, qi, pending>>

Scheme ==
    /\ pc = "scheme"
    /\ LET x == BindScheme(t, args, r)
       IN  /\ r' = IF x.kind = "ok" THEN x.val ELSE r
           /\ pc' = PcAfter(x, "host")
           /\ out' = OutAfter(x)
    /\ UNCHANGED <<pattern, args, opt, cache, tokens, step, result, queryKeyStr,
                   iters, ot, t, paths, query, qi, pending>>

Host ==
    /\ pc = "host"
    /\ LET x == BindHost(t, args, r)
       IN  /\ r' = IF x.kind = "ok" THEN x.val ELSE r
           /\ pc' = PcAfter(x, "port")
           /\ out' = OutAfter(x)
    /\ UNCHANGED <<pattern, args, opt, cache, tokens, step, result, queryKeyStr,
                   iters, ot, t, paths, query, qi, pending>>

Port ==
    /\ pc = "port"
    /\ LET x == BindPort(t, args, r)
       IN  /\ r' = IF x.kind = "ok" THEN x.val ELSE r
           /\ pc' = PcAfter(x, "path")
           /\ out' = OutAfter(x)
    /\ UNCHANGED <<pattern, args, opt, cache, tokens, step, result, queryKeyStr,
                   iters, ot, t, paths, query, qi, pending>>

\* The loop over t.paths, and "query := url.Values{}".
Path ==
    /\ pc = "path"
    /\ LET x == PathPieces(t.paths, args, <<>>)
       IN  /\ paths' = IF x.kind = "ok" THEN x.val ELSE paths
           /\ pc' = PcAfter(x, "query")
           /\ out' = OutAfter(x)
    /\ query' = EmptyValues
    /\ qi' = 1
    /\ pending' = {}
    /\ UNCHANGED <<pattern, args, opt, cache, tokens, step, result, queryKeyStr,
                   iters, ot, t, r>>

\* One entry q of "for _, q := range t.queries"; a query set placeholder
\* bound to a url.Values starts the range over its keys.
QueryEntry ==
    /\ pc = "query"
    /\ qi <= Len(t.queries)
    /\ LET q == t.queries[qi]
           isSet == q.value.partType # "static" /\ q.key = <<>>
           v == ArgAt(args, q.value.index)
           x == IF q.value.partType = "static"
                THEN Ok(ValuesAdd(query, q.key, q.value.value))
                ELSE IF ~InRange(args, q.value.index) THEN Panic
                ELSE IF q.key # <<>> THEN updateQuery(query, q.key, v)
                ELSE IF v.t = "url.Values" THEN Ok(query)
                ELSE Err(ErrFormatFailed)
           keys == IF isSet /\ x.kind = "ok" THEN DOMAIN v.v ELSE {}
       IN  /\ query' = IF x.kind = "ok" THEN x.val ELSE query
           /\ pending' = keys
           /\ qi' = IF x.kind = "ok" /\ keys = {} THEN qi + 1 ELSE qi
           /\ pc' = IF keys # {} THEN "queryset" ELSE PcAfter(x, "query")
           /\ out' = OutAfter(x)
    /\ UNCHANGED <<pattern, args, opt, cache, tokens, step, result, queryKeyStr,
                   iters, ot, t, r, paths>>

\* One key of "for key, values := range vs": Go ranges over a map in an
\* unspecified order.
QuerySetKey ==
    /\ pc = "queryset"
    /\ \E key \in pending :
         LET vs == ArgAt(args, t.queries[qi].value.index).v
             x == updateQuery(query, key, StringSlice(vs[key]))
             last == pending = {key}
         IN  /\ query' = IF x.kind = "ok" THEN x.val ELSE query
             /\ pending' = pending \ {key}
             /\ qi' = IF x.kind = "ok" /\ last THEN qi + 1 ELSE qi
             /\ pc' = IF x.kind = "ok" /\ ~last THEN "queryset" ELSE PcAfter(x, "query")
             /\ out' = OutAfter(x)
    /\ UNCHANGED <<pattern, args, opt, cache, tokens, step, result, queryKeyStr,
                   iters, ot, t, r, paths>>

\* "r.RawQuery = query.Encode()" and the fragment.
Fragment ==
    /\ pc = "query"
    /\ qi > Len(t.queries)
    /\ LET x == BindFragment(t, args, [r EXCEPT !.RawQuery = Encode(query)])
       IN  /\ r' = IF x.kind = "ok" THEN x.val ELSE [r EXCEPT !.RawQuery = Encode(query)]
           /\ pc' = PcAfter(x, "join")
           /\ out' = OutAfter(x)
    /\ UNCHANGED <<pattern, args, opt, cache, tokens, step, result, queryKeyStr,
                   iters, ot, t, paths, query, qi, pending>>

\* The path is joined, the user set, and r.String() returned.
Return ==
    /\ pc = "join"
    /\ LET u == [r EXCEPT !.Path = JoinPaths(r.Path, paths),
                          !.User = IF t.username # <<>>
                                   THEN [set |-> TRUE, username |-> t.username,
                                         password |-> t.password]
                                   ELSE @]
       IN  /\ r' = u
           /\ out' = Returned(u, "nil")
    /\ pc' = "done"
    /\ UNCHANGED <<pattern, args, opt, cache, tokens, step, result, queryKeyStr,
                   iters, ot, t, paths, query, qi, pending>>

Next ==
    \/ LoadOrParse
    \/ ParseLoop
    \/ ParseReturn
    \/ Overwrite
    \/ Scheme
    \/ Host
    \/ Port
    \/ Path
    \/ QueryEntry
    \/ QuerySetKey
    \/ Fragment
    \/ Return

\* The state in which a formatter built with o is called with (format, a).
Call(format, a, o) ==
    /\ pattern = format
    /\ args = a
    /\ opt = o
    /\ cache = EmptyValues
    /\ pc = "start"
    /\ tokens = <<>>
    /\ step = "protocol"
    /\ result = EmptyResult
    /\ queryKeyStr = <<>>
    /\ iters = 0
    /\ ot = EmptyResult
    /\ t = EmptyResult
    /\ r = EmptyURL
    /\ paths = <<>>
    /\ query = EmptyValues
    /\ qi = 1
    /\ pending = {}
    /\ out = NoReturn

(***************************************************************************)
(* One call as a function of its inputs                                    *)
(***************************************************************************)

\* A parse that is still in its loop after MaxIter iterations.
Looping == [kind |-> "loop", val |-> <<>>]

\* The loop of parse from the parser state p, n iterations done.
RECURSIVE parseLoop(_, _)
parseLoop(p, n) ==
    IF p.err THEN Err(ErrParseFailed)
    ELSE IF Len(p.tokens) = 0 THEN Ok(p.result)
    ELSE IF n >= MaxIter THEN Looping
    ELSE parseLoop(ParseIteration(p), n + 1)

\* parse(pattern)
parse(format) ==
    parseLoop(ParserState(Tokenize(format), "protocol", EmptyResult, <<>>), 0)

\* "for key, values := range vs", the keys taken in the order of the list;
\* x is how the key before ended.
RECURSIVE RangeValues(_, _, _)
RangeValues(x, vs, keys) ==
    IF x.kind # "ok" \/ keys = <<>> THEN x
    ELSE RangeValues(updateQuery(x.val, Head(keys), StringSlice(vs[Head(keys)])),
                     vs, Tail(keys))

\* "for _, q := range t.queries", query sets ranged over in key order.
\* One entry e of t.queries on the url.Values q.
QueryOf(e, a, q) ==
    IF e.value.partType = "static"
    THEN Ok(ValuesAdd(q, e.key, e.value.value))
    ELSE IF ~InRange(a, e.value.index) THEN Panic
    ELSE IF e.key # <<>> THEN updateQuery(q, e.key, ArgAt(a, e.value.index))
    ELSE IF ArgAt(a, e.value.index).t = "url.Values"
    THEN RangeValues(Ok(q), ArgAt(a, e.value.index).v,
                     SortedKeys(DOMAIN ArgAt(a, e.value.index).v))
    ELSE Err(ErrFormatFailed)

RECURSIVE QueriesFrom(_, _, _)
QueriesFrom(x, qs, a) ==
    IF x.kind # "ok" \/ qs = <<>> THEN x
    ELSE QueriesFrom(QueryOf(Head(qs), a, x.val), Tail(qs), a)

Queries(qs, a, q) == QueriesFrom(Ok(q), qs, a)

\* The rest of the call after each of its pieces ended as x.
AfterFragment(tp, ps, x) ==
    IF x.kind # "ok" THEN x
    ELSE Ok([x.val EXCEPT !.Path = JoinPaths(x.val.Path, ps),
                          !.User = IF tp.username # <<>>
                                   THEN [set |-> TRUE, username |-> tp.username,
                                         password |-> tp.password]
                                   ELSE @])

AfterQuery(tp, a, u, ps, x) ==
    IF x.kind # "ok" THEN x
    ELSE AfterFragment(tp, ps, BindFragment(tp, a, [u EXCEPT !.RawQuery = Encode(x.val)]))

AfterPath(tp, a, u, x) ==
    IF x.kind # "ok" THEN x
    ELSE AfterQuery(tp, a, u, x.val, Queries(tp.queries, a, EmptyValues))

AfterPort(tp, a, x) ==
    IF x.kind # "ok" THEN x
    ELSE AfterPath(tp, a, x.val, PathPieces(tp.paths, a, <<>>))

AfterHost(tp, a, x) ==
    IF x.kind # "ok" THEN x ELSE AfterPort(tp, a, BindPort(tp, a, x.val))

AfterScheme(tp, a, x) ==
    IF x.kind # "ok" THEN x ELSE AfterHost(tp, a, BindHost(tp, a, x.val))

AfterOverwrite(a, x) ==
    IF x.kind # "ok" THEN x ELSE AfterScheme(x.val, a, BindScheme(x.val, a, EmptyURL))

\* The formatter built with o, from the template src on.
FormatWith(src, a, o) == AfterOverwrite(a, overwrite(src, o))

AfterParse(a, o, x) ==
    IF x.kind # "ok" THEN x ELSE FormatWith(x.val, a, o)

\* TryCustomFormatter(o)(format, a...) on an empty cache.
TryCustomFormatter(o, format, a) == AfterParse(a, o, parse(format))

\* What a call that ended as x leaves in pc and out.
EndOf(x) ==
    [pc |-> CASE x.kind = "ok" -> "done"
              [] x.kind = "error" -> "done"
              [] x.kind = "panic" -> "panic"
              [] x.kind = "loop" -> "parse",
     out |-> CASE x.kind = "ok" -> Returned(x.val, "nil")
               [] x.kind = "error" -> Returned(EmptyURL, x.val)
               [] OTHER -> NoReturn]

(***************************************************************************)
(* Inputs                                                                  *)
(***************************************************************************)

\* The number of placeholders of a template: the arguments it refers to.
NumPlaceholders(s) ==
    Cardinality({i \in 1..Len(Tokenize(s)) : Tokenize(s)[i].tokenType = "placeholder"})

\* The argument lists of at most n values of V that are one shorter than, as
\* long as, or one longer than the placeholders of template s.
ArgLists(V, n, s) ==
    UNION {[1..k -> V] : k \in (0..n) \cap ((NumPlaceholders(s) - 1)..(NumPlaceholders(s) + 1))}

\* The templates a \o p \o q \o f.
Compose(A, P, Q, F) == {a \o p \o q \o f : a \in A, p \in P, q \in Q, f \in F}

\* -- the whole call: authority, fragment and argument types -----------------

MaxArgs == 2

Authorities ==
    {<<>>, <<"/", "/", "h">>, <<"s", ":", "/", "/", "h">>,
     <<"{", "}", ":", "/", "/", "h">>, <<"s", ":", "/", "/", "{", "}">>,
     <<"s", ":", "/", "/", "h", ":", "8">>,
     <<"s", ":", "/", "/", "h", ":", "{", "}">>,
     <<"s", ":", "/", "/", "{", "}", ":", "8">>,
     <<"s", ":", "/", "/", "{", "}", ":", "{", "}">>,
     <<"{", "}", ":", "/", "/", "{", "}", ":", "{", "}">>}

CallTemplates ==
    {s \in Compose(Authorities, {<<>>, <<"/", "u">>, <<"/", "u", "/", "{", "}">>},
                   {<<>>, <<"?", "k", "=", "{", "}">>, <<"?", "{", "}">>},
                   {<<>>, <<"#", "{", "}">>}) :
        NumPlaceholders(s) <= MaxArgs + 1}

OneKey == (<<"k">> :> <<(<<"a">>)>>)

CallValues ==
    {NilVal, StrVal(<<"a">>), StrVal(<<>>), PStrVal(<<"a">>), NilPStr, IntVal(8),
     NilPInt, OtherVal, SliceVal(<<StrVal(<<"a">>), OtherVal>>), ValuesVal(OneKey)}

Init ==
    \E s \in CallTemplates : \E a \in ArgLists(CallValues, MaxArgs, s) : Call(s, a, NoOpt)

Spec == Init /\ [][Next]_vars

\* -- the parser alone: every string of a few lexemes ------------------------

MaxLex == 4

Lexemes ==
    {SepScheme, SepSlashes, SepColon, SepSlash, SepQuestion, SepEqual, SepAmp,
     SepHash, SepAt, Marker, <<"a">>, <<"8">>}

RECURSIVE LexStrings(_)
LexStrings(n) ==
    IF n = 0 THEN {<<>>}
    ELSE LET S == LexStrings(n - 1) IN S \cup {s \o l : s \in S, l \in Lexemes}

InitParse == \E s \in LexStrings(MaxLex) : Call(s, <<>>, NoOpt)

NextParse == LoadOrParse \/ ParseLoop \/ ParseReturn

SpecParse == InitParse /\ [][NextParse]_vars

\* -- the path: strings with slashes and lists bound to path placeholders ----

MaxStr == 3
MaxList == 3

\* The sequences of at most n elements of S.
SeqsUpTo(S, n) == UNION {[1..k -> S] : k \in 0..n}

PathTemplates ==
    {<<"/", "u", "/", "{", "}">>, <<"/", "u", "/", "{", "}", "/">>,
     <<"/", "/", "h", "/", "{", "}">>, <<"/", "u", "/", "{", "}", "/", "x">>}

PathStrings == {StrVal(s) : s \in SeqsUpTo({"a", "/"}, MaxStr)}

PathElements == {StrVal(<<"a">>), StrVal(<<>>), PStrVal(<<"b">>), IntVal(7), NilVal}

PathLists == {SliceVal(l) : l \in SeqsUpTo(PathElements, MaxList)}

\* One path placeholder bound to a string or a list, or two bound to strings
\* or to lists of one element; with or without a query set and a fragment.
InitPath ==
    \/ \E s \in PathTemplates : \E v \in PathStrings \cup PathLists :
         Call(s, <<v>>, NoOpt)
    \/ \E v, w \in PathStrings \cup {SliceVal(<<e>>) : e \in PathElements} :
         Call(<<"/", "{", "}", "/", "{", "}">>, <<v, w>>, NoOpt)
    \/ \E v \in PathStrings \cup {SliceVal(<<e>>) : e \in PathElements} :
         Call(<<"/", "u", "/", "{", "}", "?", "{", "}", "#", "{", "}">>,
              <<v, ValuesVal(OneKey), StrVal(<<"f">>)>>, NoOpt)

SpecPath == InitPath /\ [][Next]_vars

\* -- the query: lists bound to values, url.Values bound to query sets -------

MaxVals == 2

QueryElements == {StrVal(<<"a">>), StrVal(<<>>), PStrVal(<<"b">>), IntVal(7), NilVal}

QueryValues ==
    {NilVal, StrVal(<<"a">>), IntVal(7)}
      \cup {SliceVal(l) : l \in SeqsUpTo(QueryElements, MaxList)}

ShortQueryValues ==
    {NilVal, StrVal(<<"a">>), SliceVal(<<>>), SliceVal(<<StrVal(<<"b">>)>>),
     SliceVal(<<IntVal(7), StrVal(<<"a">>)>>)}

\* The url.Values over the keys k and j with at most MaxVals values a key.
QuerySets ==
    UNION {[K -> SeqsUpTo({<<"a">>, <<"b">>}, MaxVals)] :
             K \in SUBSET {<<"k">>, <<"j">>}}

ValueTemplates ==
    {<<"/", "?", "k", "=", "{", "}">>,
     <<"/", "?", "k", "=", "o", "&", "k", "=", "{", "}">>,
     <<"/", "?", "j", "=", "o", "&", "k", "=", "{", "}">>,
     <<"/", "?", "k", "=", "o", "&", "k", "=", "{", "}", "&", "j", "=", "o">>,
     <<"/", "u", "?", "k", "=", "o", "&", "k", "=", "o", "&", "k", "=", "{", "}", "#", "f">>}

SetTemplates ==
    {<<"/", "?", "{", "}">>,
     <<"/", "?", "k", "=", "o", "&", "{", "}">>,
     <<"/", "?", "k", "=", "o", "&", "j", "=", "o", "&", "{", "}">>,
     <<"/", "?", "k", "=", "o", "&", "k", "=", "o", "&", "{", "}">>}

InitQuery ==
    \/ \E s \in ValueTemplates : \E v \in QueryValues : Call(s, <<v>>, NoOpt)
    \/ \E s \in SetTemplates : \E c \in QuerySets : Call(s, <<ValuesVal(c)>>, NoOpt)
    \/ \E v \in ShortQueryValues : \E c \in QuerySets :
         \/ Call(<<"/", "?", "k", "=", "{", "}", "&", "{", "}">>,
                 <<v, ValuesVal(c)>>, NoOpt)
         \/ Call(<<"/", "?", "k", "=", "o", "&", "{", "}", "&", "k", "=", "{", "}">>,
                 <<ValuesVal(c), v>>, NoOpt)

SpecQuery == InitQuery /\ [][Next]_vars

\* -- templates without placeholders, formatted with no argument -------------

StaticTemplates ==
    Compose({<<>>, <<"/", "/", "h">>, <<"s", ":", "/", "/", "h">>,
             <<"s", ":", "/", "/", "h", ":", "8">>},
            {<<>>, <<"/">>, <<"/", "u">>, <<"/", "u", "/">>, <<"/", "u", "/", "x">>},
            {<<>>, <<"?", "k", "=", "o">>, <<"?", "j", "=", "o", "&", "k", "=", "o">>,
             <<"?", "k", "=", "o", "&", "j", "=", "o">>,
             <<"?", "k", "=", "o", "&", "k", "=", "a">>,
             <<"?", "k", "=", "o", "&", "j", "=", "o", "&", "k", "=", "a">>},
            {<<>>, <<"#", "f">>})

\* A static template with no argument, or the same with a query set after it.
InitStatic ==
    \E s \in StaticTemplates :
        \/ Call(s, <<>>, NoOpt)
        \/ \E q \in {<<"?", "{", "}">>, <<"&", "{", "}">>} :
             Call(s \o q, <<ValuesVal(OneKey)>>, NoOpt)

SpecStatic == InitStatic /\ [][Next]_vars

\* -- the parser on templates with a port ------------------------------------

PortMargin == 2

\* The decimal texts of the numbers around both ends of the port range,
\* texts that are no number, no text at all, and a placeholder.
PortTexts ==
    {Itoa(n) : n \in ((MinPort - 1)..(MinPort + PortMargin))
                       \cup ((MaxPort - PortMargin)..(MaxPort + PortMargin))}
      \cup {<<>>, <<"a">>, <<"8", "a">>, <<"-", "1">>, <<"0", "8">>, Marker}

PortTemplates ==
    {a \o SepColon \o n \o e :
        a \in {<<"/", "/", "h">>, <<"s", ":", "/", "/", "h">>,
               <<"/", "/", "{", "}">>, <<"{", "}", ":", "/", "/", "h">>},
        n \in PortTexts,
        e \in {<<>>, <<"/">>, <<"/", "u">>, <<"?", "k", "=", "o">>, <<"#", "f">>}}

InitPort == \E s \in PortTemplates : Call(s, <<>>, NoOpt)

SpecPort == InitPort /\ [][NextParse]_vars

\* -- formatters built with options ------------------------------------------

\* Hostname options [scheme "://"] host [":" port], and none.
OptHostnames ==
    {<<>>} \cup
    {sc \o h \o po :
        sc \in {<<>>, <<"s">> \o SepScheme, <<"a", "-", "b">> \o SepScheme},
        h \in {<<"h">>, <<"a", ".", "b">>},
        po \in {<<>>} \cup {SepColon \o Itoa(n) : n \in {0, 8, MaxUint16, MaxUint16 + 1}}}

Opts ==
    {Opt(h, po, pr, u, pw) :
        h \in OptHostnames, po \in {0, 9}, pr \in {<<>>, <<"p">>},
        u \in {<<>>, <<"u">>}, pw \in {<<>>, <<"x">>}}

\* Templates with static and parametric authority slots and without
\* authority, each with arguments for its placeholders.
OptCalls ==
    {<<<<"s", ":", "/", "/", "h", ":", "8", "/", "u">>, <<>>>>,
     <<<<"{", "}", ":", "/", "/", "{", "}", ":", "{", "}", "/", "u">>,
       <<StrVal(<<"f">>), StrVal(<<"k">>), IntVal(7)>>>>,
     <<<<"/", "/", "h">>, <<>>>>,
     <<<<"/", "u">>, <<>>>>,
     <<<<"s", ":", "/", "/", "h", "/", "u", "/", "{", "}", "?", "{", "}", "#", "{", "}">>,
       <<StrVal(<<"a">>), ValuesVal(OneKey), StrVal(<<"f">>)>>>>}

InitOpt == \E c \in OptCalls : \E o \in Opts : Call(c[1], c[2], o)

SpecOpt == InitOpt /\ [][Next]_vars

\* -- Hostname options hostPattern matches and does not match ----------------

\* Hostname options with and without protocol and port, with a port above
\* 65535, and beginning with ':' or left with ':' after the protocol.
HostOptStrings ==
    {<<"h">>, <<"a", ".", "b", ":", "8">>, <<"s">> \o SepScheme \o <<"h", ":", "8">>,
     <<"h", ":">>, <<"h", ":", "x">>,
     <<"h">> \o SepColon \o Itoa(MaxUint16), <<"h">> \o SepColon \o Itoa(MaxUint16 + 1),
     <<":">>, <<":", "8">>, <<":", "8", "0", "8", "0">>, <<":", ":", "h">>,
     <<":">> \o Itoa(MaxUint16 + 1),
     <<"s">> \o SepScheme \o <<":", "8">>}

HostOpts ==
    {Opt(h, po, <<>>, u, u) : h \in HostOptStrings, po \in {0, 9}, u \in {<<>>, <<"u">>}}

InitHostOpt == \E c \in OptCalls : \E o \in HostOpts : Call(c[1], c[2], o)

SpecHostOpt == InitHostOpt /\ [][Next]_vars

\* -- calls one after the other on the same cache ----------------------------

\* Templates that parse, with arguments that fit, are of a wrong type or are
\* too few, and templates that do not parse.
SeqCalls ==
    {<<<<"s", ":", "/", "/", "h", "/", "u">>, <<>>>>,
     <<<<"{", "}", ":", "/", "/", "{", "}", "/", "u", "?", "{", "}">>,
       <<StrVal(<<"s">>), StrVal(<<"h">>), ValuesVal(OneKey)>>>>,
     <<<<"{", "}", ":", "/", "/", "{", "}", "/", "u", "?", "{", "}">>,
       <<StrVal(<<"s">>), OtherVal, ValuesVal(OneKey)>>>>,
     <<<<"{", "}", ":", "/", "/", "{", "}", "/", "u", "?", "{", "}">>,
       <<StrVal(<<"s">>)>>>>,
     <<<<"/", "u", "?", "k", "=", "{", "}">>, <<StrVal(<<"a">>)>>>>,
     <<<<"/", "u", "?", "k", "=", "{", "}">>, <<NilVal>>>>,
     <<<<"s", ":", "/", "/", "h", ":", "0">>, <<>>>>,
     <<<<"/", "u", "#", "f", "#">>, <<>>>>}

SeqOpts ==
    {NoOpt,
     Opt(<<"s", ":", "/", "/", "a", ".", "b", ":", "8">>, 0, <<>>, <<>>, <<>>),
     Opt(<<"h">>, 9, <<"p">>, <<"u">>, <<"x">>),
     Opt(<<>>, 0, <<"p">>, <<>>, <<>>),
     Opt(<<>>, 0, <<>>, <<"u">>, <<>>),
     Opt(<<"h">> \o SepColon \o Itoa(MaxUint16 + 1), 0, <<>>, <<>>, <<>>)}

InitSeq == \E c \in SeqCalls : \E o \in SeqOpts : Call(c[1], c[2], o)

\* The call has returned or panicked (and the panic was recovered): some
\* formatter is called next, its locals fresh and the cache as it is.
NewCall ==
    /\ pc \in {"done", "panic"}
    /\ \E c \in SeqCalls : \E o \in SeqOpts :
         /\ pattern' = c[1]
         /\ args' = c[2]
         /\ opt' = o
    /\ pc' = "start"
    /\ tokens' = <<>>
    /\ step' = "protocol"
    /\ result' = EmptyResult
    /\ queryKeyStr' = <<>>
    /\ iters' = 0
    /\ ot' = EmptyResult
    /\ t' = EmptyResult
    /\ r' = EmptyURL
    /\ paths' = <<>>
    /\ query' = EmptyValues
    /\ qi' = 1
    /\ pending' = {}
    /\ out' = NoReturn
    /\ UNCHANGED cache

NextSeq ==
    \/ LoadOrParse
    \/ ParseLoop
    \/ ParseReturn
    \/ Overwrite
    \/ Scheme
    \/ Host
    \/ Port
    \/ Path
    \/ QueryEntry
    \/ QuerySetKey
    \/ Fragment
    \/ Return
    \/ NewCall

SpecSeq == InitSeq /\ [][NextSeq]_vars

\* -- callers that run at the same time on the same cache --------------------

\* In this specification pattern, args, opt, pc, the parser's locals, ot and
\* out are functions of the caller (each goroutine has its own), and cache is
\* the one sync.Map, read by Load and written by Store, each atomic.  The
\* call after the cache is local to the caller and taken in one step.
MaxCallers == 2

Callers == 1..MaxCallers

\* What a caller calls: format, args and the options of its formatter.
ConcCalls ==
    {<<<<"/", "/", "h", "/", "u">>, <<>>, Opt(<<>>, 9, <<"p">>, <<>>, <<>>)>>,
     <<<<"{", "}", ":", "/", "/", "h", "?", "{", "}">>,
       <<StrVal(<<"s">>), ValuesVal(OneKey)>>,
       Opt(<<"a", ".", "b", ":", "8">>, 0, <<>>, <<"u">>, <<"x">>)>>,
     <<<<"h", ":", "0">>, <<>>, NoOpt>>}

InitConc ==
    /\ \E f \in [Callers -> ConcCalls] :
         /\ pattern = [c \in Callers |-> f[c][1]]
         /\ args = [c \in Callers |-> f[c][2]]
         /\ opt = [c \in Callers |-> f[c][3]]
    /\ cache = EmptyValues
    /\ pc = [c \in Callers |-> "start"]
    /\ tokens = [c \in Callers |-> <<>>]
    /\ step = [c \in Callers |-> "protocol"]
    /\ result = [c \in Callers |-> EmptyResult]
    /\ queryKeyStr = [c \in Callers |-> <<>>]
    /\ iters = [c \in Callers |-> 0]
    /\ ot = [c \in Callers |-> EmptyResult]
    /\ out = [c \in Callers |-> NoReturn]
    /\ t = EmptyResult
    /\ r = EmptyURL
    /\ paths = <<>>
    /\ query = EmptyValues
    /\ qi = 1
    /\ pending = {}

\* What no step of a caller touches.
ConcFrame == UNCHANGED <<t, r, paths, query, qi, pending>>

\* cache.Load(format) that stores an unfinished parseResult on a miss.
CLoadReserves(c) ==
    /\ pc[c] = "start"
    /\ IF pattern[c] \in DOMAIN cache
       THEN /\ ot' = [ot EXCEPT ![c] = cache[pattern[c]]]
            /\ pc' = [pc EXCEPT ![c] = "overwrite"]
            /\ UNCHANGED <<tokens, step, result, queryKeyStr, iters, cache>>
       ELSE /\ tokens' = [tokens EXCEPT ![c] = Tokenize(pattern[c])]
            /\ step' = [step EXCEPT ![c] = "protocol"]
            /\ result' = [result EXCEPT ![c] = EmptyResult]
            /\ queryKeyStr' = [queryKeyStr EXCEPT ![c] = <<>>]
            /\ iters' = [iters EXCEPT ![c] = 0]
            /\ pc' = [pc EXCEPT ![c] = "parse"]
            /\ cache' = (pattern[c] :> EmptyResult) @@ cache
            /\ ot' = ot
    /\ UNCHANGED <<pattern, args, opt, out>>
    /\ ConcFrame

\* cache.Load(format) by caller c; on a miss its parse starts.
CLoad(c) ==
    /\ pc[c] = "start"
    /\ IF pattern[c] \in DOMAIN cache
       THEN /\ ot' = [ot EXCEPT ![c] = cache[pattern[c]]]
            /\ pc' = [pc EXCEPT ![c] = "overwrite"]
            /\ UNCHANGED <<tokens, step, result, queryKeyStr, iters>>
       ELSE /\ tokens' = [tokens EXCEPT ![c] = Tokenize(pattern[c])]
            /\ step' = [step EXCEPT ![c] = "protocol"]
            /\ result' = [result EXCEPT ![c] = EmptyResult]
            /\ queryKeyStr' = [queryKeyStr EXCEPT ![c] = <<>>]
            /\ iters' = [iters EXCEPT ![c] = 0]
            /\ pc' = [pc EXCEPT ![c] = "parse"]
            /\ ot' = ot
    /\ UNCHANGED <<pattern, args, opt, cache, out>>
    /\ ConcFrame

\* One iteration of the parser loop of caller c, on its own locals.
CParseLoop(c) ==
    /\ pc[c] = "parse"
    /\ Len(tokens[c]) > 0
    /\ iters[c] < MaxIter
    /\ LET p == ParseIteration(ParserState(tokens[c], step[c], result[c], queryKeyStr[c]))
       IN  /\ tokens' = [tokens EXCEPT ![c] = p.tokens]
           /\ step' = [step EXCEPT ![c] = p.step]
           /\ result' = [result EXCEPT ![c] = p.result]
           /\ queryKeyStr' = [queryKeyStr EXCEPT ![c] = p.queryKeyStr]
           /\ pc' = [pc EXCEPT ![c] = IF p.err THEN "done" ELSE "parse"]
           /\ out' = [out EXCEPT ![c] = IF p.err THEN Returned(EmptyURL, ErrParseFailed)
                                        ELSE @]
    /\ iters' = [iters EXCEPT ![c] = @ + 1]
    /\ UNCHANGED <<pattern, args, opt, cache, ot>>
    /\ ConcFrame

\* parse returns its result to caller c.
CParseReturn(c) ==
    /\ pc[c] = "parse"
    /\ Len(tokens[c]) = 0
    /\ ot' = [ot EXCEPT ![c] = result[c]]
    /\ pc' = [pc EXCEPT ![c] = "store"]
    /\ UNCHANGED <<pattern, args, opt, cache, tokens, step, result, queryKeyStr,
                   iters, out>>
    /\ ConcFrame

\* cache.Store(format, ot) by caller c.
CStore(c) ==
    /\ pc[c] = "store"
    /\ cache' = (pattern[c] :> ot[c]) @@ cache
    /\ pc' = [pc EXCEPT ![c] = "overwrite"]
    /\ UNCHANGED <<pattern, args, opt, tokens, step, result, queryKeyStr, iters,
                   ot, out>>
    /\ ConcFrame

\* The rest of the call of caller c: overwrite, the bindings and the return.
CFormat(c) ==
    /\ pc[c] = "overwrite"
    /\ pc' = [pc EXCEPT ![c] = EndOf(FormatWith(ot[c], args[c], opt[c])).pc]
    /\ out' = [out EXCEPT ![c] = EndOf(FormatWith(ot[c], args[c], opt[c])).out]
    /\ UNCHANGED <<pattern, args, opt, cache, tokens, step, result, queryKeyStr,
                   iters, ot>>
    /\ ConcFrame

\* Caller c calls a formatter again.
CNewCall(c) ==
    /\ pc[c] \in {"done", "panic"}
    /\ \E f \in ConcCalls :
         /\ pattern' = [pattern EXCEPT ![c] = f[1]]
         /\ args' = [args EXCEPT ![c] = f[2]]
         /\ opt' = [opt EXCEPT ![c] = f[3]]
    /\ pc' = [pc EXCEPT ![c] = "start"]
    /\ tokens' = [tokens EXCEPT ![c] = <<>>]
    /\ step' = [step EXCEPT ![c] = "protocol"]
    /\ result' = [result EXCEPT ![c] = EmptyResult]
    /\ queryKeyStr' = [queryKeyStr EXCEPT ![c] = <<>>]
    /\ iters' = [iters EXCEPT ![c] = 0]
    /\ ot' = [ot EXCEPT ![c] = EmptyResult]
    /\ out' = [out EXCEPT ![c] = NoReturn]
    /\ UNCHANGED cache
    /\ ConcFrame

NextConc ==
    \/ \E c \in Callers : CLoad(c)
    \/ \E c \in Callers : CParseLoop(c)
    \/ \E c \in Callers : CParseReturn(c)
    \/ \E c \in Callers : CStore(c)
    \/ \E c \in Callers : CFormat(c)
    \/ \E c \in Callers : CNewCall(c)

SpecConc == InitConc /\ [][NextConc]_vars

\* -- the parser on templates that reach its later states --------------------

MaxTail == 2

\* Beginnings that take the parser into each of its states.
Beginnings ==
    {<<>>, <<"a">>, <<"/", "/", "h">>, <<"s", ":", "/", "/", "h">>,
     <<"/", "/", "{", "}">>, <<"/", "/", "h", ":", "8">>, <<"{", "}", ":", "/", "/", "{", "}", ":", "{", "}">>,
     <<"/", "u">>, <<"/", "u", "/">>, <<"s", ":", "/", "/", "h", "/", "u">>,
     <<"/", "u", "?">>, <<"/", "u", "?", "k">>, <<"/", "u", "?", "k", "=">>,
     <<"/", "u", "?", "k", "=", "o">>, <<"/", "u", "?", "k", "=", "{", "}">>,
     <<"/", "u", "?", "k", "=", "o", "&">>, <<"/", "u", "?", "k", "&">>,
     <<"/", "u", "?", "{", "}">>, <<"/", "u", "?", "{", "}", "&">>,
     <<"/", "u", "#">>, <<"/", "u", "#", "f">>, <<"/", "u", "#", "{", "}">>,
     <<"/", "u", "?", "k", "=", "o", "#">>, <<"/", "u", "?", "k", "#">>}

\* Each beginning followed by every string of at most MaxTail lexemes.
TailTemplates == {b \o l : b \in Beginnings, l \in LexStrings(MaxTail)}

InitTail == \E s \in TailTemplates : Call(s, <<>>, NoOpt)

SpecTail == InitTail /\ [][NextParse]_vars

\* -- the tokenizer on every short string of characters ----------------------

MaxChars == 6

\* Characters of the separators and the placeholder, and one of text.
Alphabet == {":", "/", "{", "}", "a"}

InitChars == \E s \in SeqsUpTo(Alphabet, MaxChars) : Call(s, <<>>, NoOpt)

SpecChars == InitChars /\ [][NextParse]_vars

\* -- ports from every source: literal, argument, Port and Hostname options --

\* Integers around both ends of the port range, and a negative one.
PortNumbers ==
    {0 - 1} \cup ((MinPort - 1)..(MinPort + 1)) \cup ((MaxPort - 1)..(MaxPort + 1))

PortCalls ==
    {<<<<"/", "/", "h", ":", "{", "}">>, <<v>>>> :
        v \in {IntVal(n) : n \in PortNumbers} \cup {PIntVal(n) : n \in PortNumbers}
                \cup {NilVal}}
      \cup {<<<<"s", ":", "/", "/", "h", ":", "8", "/", "u", "?", "{", "}", "#", "f">>,
              <<ValuesVal(OneKey)>>>>,
            <<<<"/", "/", "h">>, <<>>>>,
            <<<<"/", "u">>, <<>>>>}

PortOpts ==
    {Opt(h, po, <<>>, <<>>, <<>>) :
        h \in {<<>>, <<"a", ".", "b">>}
                \cup {<<"a", ".", "b">> \o SepColon \o Itoa(n) : n \in PortNumbers \ {0 - 1}},
        po \in {0, 9, MaxUint16}}

InitPortOut == \E c \in PortCalls : \E o \in PortOpts : Call(c[1], c[2], o)

SpecPortOut == InitPortOut /\ [][Next]_vars

(***************************************************************************)
(* Properties                                                              *)
(***************************************************************************)

\* C1: every iteration of the parser loop consumes at least one token,
\* changes the parser state or returns an error, so parse ends after a number
\* of iterations bounded by the token count.
C1_ParseIterationProgresses ==
    [][(pc = "parse" /\ pc' = "parse")
         => (Len(tokens') < Len(tokens) \/ step' # step)]_vars

\* The call is over: it returned or it panicked.
Ended == pc \in {"done", "panic"}

\* parse succeeded on the template of the call.
Parsed == pattern \in DOMAIN cache

\* The call returned a URL and no error.
ReturnedURL == pc = "done" /\ out.returned /\ out.err = "nil"

\* Every placeholder of the template has its argument.
Covered == Len(args) >= NumPlaceholders(pattern)

\* The argument bound to the parametric part p.
Bound(p) == ArgAt(args, p.index)

\* The parametric part p is bound to the value v.
BoundTo(p, v) == p.partType = "param" /\ InRange(args, p.index) /\ Bound(p) = v

\* The parametric part p is bound to one of the values of V.
BoundIn(p, V) == p.partType = "param" => (InRange(args, p.index) /\ Bound(p) \in V)

\* C2: a nil *string or *int bound to a protocol, hostname, port, path,
\* query value or fragment placeholder omits the slot, and the formatter
\* returns a URL: it neither panics nor returns an error.
C2_NullPointerOmitsSlot ==
    (/\ Ended
     /\ Parsed
     /\ NumPlaceholders(pattern) > 0
     /\ BoundIn(ot.protocol, {NilPStr})
     /\ BoundIn(ot.hostname, {NilPStr})
     /\ BoundIn(ot.port, {NilPInt})
     /\ BoundIn(ot.fragment, {NilPStr})
     /\ \A i \in 1..Len(ot.paths) : BoundIn(ot.paths[i], {NilPStr, NilPInt})
     /\ \A i \in 1..Len(ot.queries) :
          /\ ot.queries[i].value.partType = "param" => ot.queries[i].key # <<>>
          /\ BoundIn(ot.queries[i].value, {NilPStr, NilPInt}))
    => ReturnedURL

\* C3: when the argument list is too short for the placeholders, the
\* formatter returns a format error and no URL; it does not panic.
C3_MissingArgumentIsError ==
    (Ended /\ Parsed /\ ~Covered)
    => (pc = "done" /\ out.returned /\ out.err = ErrFormatFailed /\ out.url = EmptyURL)

\* C4: an untyped nil bound to the protocol placeholder gives a URL without
\* scheme that keeps its host; bound to the hostname placeholder, a URL with
\* neither scheme nor host nor port; bound to the port placeholder, a host
\* without ":port"; bound to the fragment placeholder, no fragment.  In every
\* output a port is present only after a host.
C4_NullOmitsSlot ==
    ReturnedURL =>
        /\ BoundTo(t.protocol, NilVal) =>
             /\ out.url.Scheme = <<>>
             /\ t.hostname.partType = "static" => HasPrefix(out.url.Host, t.hostname.value)
        /\ BoundTo(t.hostname, NilVal) => (out.url.Scheme = <<>> /\ out.url.Host = <<>>)
        /\ BoundTo(t.port, NilVal) => \A i \in 1..Len(out.url.Host) : out.url.Host[i] # ":"
        /\ BoundTo(t.fragment, NilVal) => out.url.Fragment = <<>>
        /\ out.url.Host # <<>> => Head(out.url.Host) # ":"

\* A null hostname in a template with a static protocol and a static port.
C4_Witness ==
    /\ ReturnedURL
    /\ BoundTo(t.hostname, NilVal)
    /\ t.protocol.partType = "static"
    /\ t.port.partType = "static"
    /\ out.url.Host = <<>>

\* A value that no path or query value placeholder accepts: neither a
\* string, an integer, a pointer to one, nil, nor a slice of those.
WrongElement(e) == e.t \in {"other", "url.Values", "slice"}
WrongValue(v) ==
    \/ v.t \in {"other", "url.Values"}
    \/ v.t = "slice" /\ \E i \in 1..Len(v.v) : WrongElement(v.v[i])

IsNilPointer(v) == v.t \in {"nil*string", "nil*int"}

\* C10: a path placeholder or the value placeholder of a literal key bound
\* to a value of a wrong type, or to a list with an element of a wrong type,
\* makes the formatter fail with a format error.
C10_WrongTypeIsError ==
    (/\ Ended
     /\ Parsed
     /\ Covered
     /\ \A i \in 1..Len(args) : ~IsNilPointer(args[i])
     /\ \/ \E i \in 1..Len(t.paths) :
             t.paths[i].partType = "param" /\ WrongValue(Bound(t.paths[i]))
        \/ \E i \in 1..Len(t.queries) :
             /\ t.queries[i].value.partType = "param"
             /\ t.queries[i].key # <<>>
             /\ WrongValue(Bound(t.queries[i].value)))
    => (pc = "done" /\ out.returned /\ out.err = ErrFormatFailed)

\* The values of key k of a url.Values, none when the key is absent.
ValuesOf(q, k) == IF k \in DOMAIN q THEN q[k] ELSE <<>>

\* The values of the pairs of key k of an encoded query, in their order.
PairValues(pairs, k) ==
    LET IsK(p) == p[1] = k
        sel == SelectSeq(pairs, IsK)
    IN  [i \in 1..Len(sel) |-> sel[i][2]]

\* The text an element of a list contributes.
ElemText(e) == IF e.t \in {"int", "*int"} THEN Itoa(e.v) ELSE e.v

\* The texts of the elements of l that are not nil.
RECURSIVE Texts(_)
Texts(l) ==
    IF l = <<>> THEN <<>>
    ELSE IF Head(l).t = "nil" THEN Texts(Tail(l))
    ELSE <<ElemText(Head(l))>> \o Texts(Tail(l))

\* Entry i of the template's query has a literal key and a placeholder value.
ValueEntry(i) ==
    /\ t.queries[i].value.partType = "param"
    /\ t.queries[i].key # <<>>
    /\ InRange(args, t.queries[i].value.index)

\* Entry i of the template's query is a query set bound to a url.Values.
SetEntry(i) ==
    /\ t.queries[i].value.partType = "param"
    /\ t.queries[i].key = <<>>
    /\ InRange(args, t.queries[i].value.index)
    /\ Bound(t.queries[i].value).t = "url.Values"

\* No entry after entry i records values for key k: none has the key k and
\* none is a query set.
LastFor(i, k) ==
    \A j \in (i + 1)..Len(t.queries) : t.queries[j].key \notin {k, <<>>}

\* A list of strings, integers or pointers to them, none nil.
NonNullList(v) ==
    /\ v.t = "slice"
    /\ \A n \in 1..Len(v.v) : v.v[n].t \in {"string", "*string", "int", "*int"}

\* The formatter is about to handle entry qi of the template's query.
AtEntry == pc = "query" /\ qi <= Len(t.queries)

C6_ListReplacesValues ==
    /\ [][(/\ AtEntry
           /\ ValueEntry(qi)
           /\ NonNullList(Bound(t.queries[qi].value))
           /\ Bound(t.queries[qi].value).v # <<>>)
            => (/\ ValuesOf(query', t.queries[qi].key) = Texts(Bound(t.queries[qi].value).v)
                /\ \A k \in (DOMAIN query \cup DOMAIN query') \ {t.queries[qi].key} :
                     ValuesOf(query', k) = ValuesOf(query, k)
                /\ qi' = qi + 1
                /\ pc' = "query")]_vars
    /\ [](ReturnedURL =>
            \A i \in 1..Len(t.queries) :
                (/\ ValueEntry(i)
                 /\ NonNullList(Bound(t.queries[i].value))
                 /\ Bound(t.queries[i].value).v # <<>>
                 /\ LastFor(i, t.queries[i].key))
                => PairValues(out.url.RawQuery, t.queries[i].key)
                     = Texts(Bound(t.queries[i].value).v))

\* A list of two or more elements bound to k={} after a static entry k=o and
\* beside an entry of another key.
C6_Witness ==
    /\ ReturnedURL
    /\ \E i \in 2..Len(t.queries) :
         /\ ValueEntry(i)
         /\ NonNullList(Bound(t.queries[i].value))
         /\ Len(Bound(t.queries[i].value).v) >= 2
         /\ t.queries[i - 1].key = t.queries[i].key
         /\ t.queries[i - 1].value.partType = "static"
         /\ \E j \in 1..Len(t.queries) : t.queries[j].key \notin {<<>>, t.queries[i].key}
         /\ PairValues(out.url.RawQuery, t.queries[i].key)
              = Texts(Bound(t.queries[i].value).v)

\* C7 (as stated): a url.Values C bound to a query set placeholder makes the
\* output values of every key k of C exactly C[k].
C7_SetReplacesEveryKey ==
    ReturnedURL =>
        \A i \in 1..Len(t.queries) :
            (SetEntry(i) /\ i = Len(t.queries))
            => \A k \in DOMAIN Bound(t.queries[i].value).v :
                 PairValues(out.url.RawQuery, k) = Bound(t.queries[i].value).v[k]

\* C7: a url.Values C bound to a query set placeholder makes the values of
\* every key k of C that has a value exactly C[k], in order; a key of C
\* without values and every key that is not in C keep the values recorded so
\* far.
C7_SetMerge ==
    /\ [][pc = "queryset"
            => \E key \in pending :
                 LET C == Bound(t.queries[qi].value).v
                 IN  /\ pending' = pending \ {key}
                     /\ ValuesOf(query', key)
                          = IF C[key] # <<>> THEN C[key] ELSE ValuesOf(query, key)
                     /\ \A k \in (DOMAIN query \cup DOMAIN query') \ {key} :
                          ValuesOf(query', k) = ValuesOf(query, k)]_vars
    /\ [][(AtEntry /\ SetEntry(qi)) => query' = query]_vars
    /\ [](ReturnedURL =>
            \A i \in 1..Len(t.queries) :
                (SetEntry(i) /\ i = Len(t.queries))
                => \A k \in DOMAIN Bound(t.queries[i].value).v :
                     Bound(t.queries[i].value).v[k] # <<>>
                       => PairValues(out.url.RawQuery, k) = Bound(t.queries[i].value).v[k])

\* A query set with two values for k after the static entries k=o and j=o:
\* k has the two values, j keeps its own.
C7_Witness ==
    /\ ReturnedURL
    /\ Len(t.queries) = 3
    /\ SetEntry(3)
    /\ t.queries[1].key = <<"k">>
    /\ t.queries[2].key = <<"j">>
    /\ DOMAIN Bound(t.queries[3].value).v = {<<"k">>}
    /\ Len(Bound(t.queries[3].value).v[<<"k">>]) = 2
    /\ PairValues(out.url.RawQuery, <<"k">>) = Bound(t.queries[3].value).v[<<"k">>]
    /\ PairValues(out.url.RawQuery, <<"j">>) = <<t.queries[2].value.value>>

\* strings.Split(s, "/"): cur is the piece being read, acc the pieces read.
RECURSIVE SplitFrom(_, _, _)
SplitFrom(s, cur, acc) ==
    IF s = <<>> THEN Append(acc, cur)
    ELSE IF Head(s) = "/" THEN SplitFrom(Tail(s), <<>>, Append(acc, cur))
    ELSE SplitFrom(Tail(s), Append(cur, Head(s)), acc)

Split(s) == SplitFrom(s, <<>>, <<>>)

\* The segments of a path: its pieces between slashes, the empty ones apart.
Segments(path) ==
    LET NonEmpty(x) == x # <<>> IN SelectSeq(Split(path), NonEmpty)

\* s has no two slashes in a row.
NoDoubleSlash(s) == \A i \in 1..(Len(s) - 1) : ~(s[i] = "/" /\ s[i + 1] = "/")

NoSlash(s) == \A i \in 1..Len(s) : s[i] # "/"

\* The template has a path placeholder, and each has its argument.
PathParams == {i \in 1..Len(t.paths) : t.paths[i].partType = "param"}
PathBound ==
    PathParams # {} /\ \A i \in PathParams : InRange(args, t.paths[i].index)

\* A list of strings without slash, integers, pointers to them and nils.
SegmentList(v) ==
    /\ v.t = "slice"
    /\ \A n \in 1..Len(v.v) :
         /\ v.v[n].t \in {"string", "*string", "int", "*int", "nil"}
         /\ v.v[n].t \in {"string", "*string"} => NoSlash(v.v[n].v)

\* No element of the list is an empty string.
NoEmptyElement(v) == \A n \in 1..Len(v.v) : v.v[n].t = "nil" \/ ElemText(v.v[n]) # <<>>

\* The segments the parts of a path stand for: those of the static text, and
\* one for each element of a list that is not nil.
RECURSIVE ExpectedSegments(_)
ExpectedSegments(parts) ==
    IF parts = <<>> THEN <<>>
    ELSE (IF Head(parts).partType = "static" THEN Segments(Head(parts).value)
          ELSE Texts(Bound(Head(parts)).v))
         \o ExpectedSegments(Tail(parts))

IsString(v) == v.t \in {"string", "*string"}

\* The arguments, with the list of the pieces of s in the place of every
\* string s bound to a path placeholder.
SplitArgs ==
    [n \in 1..Len(args) |->
        IF (\E i \in PathParams : t.paths[i].index = n - 1) /\ IsString(args[n])
        THEN StringSlice(Split(args[n].v))
        ELSE args[n]]

\* The path the formatter assembles from the arguments a.
PathFor(a) == JoinPaths(<<>>, PathPieces(t.paths, a, <<>>).val)

\* C9 (as stated): a string bound to a path placeholder gives the path that
\* the list of its pieces between slashes gives, whatever slashes it has.
C9_StringIsItsSplit ==
    (/\ ReturnedURL
     /\ PathBound
     /\ \E i \in PathParams : IsString(Bound(t.paths[i])))
    => out.url.Path = PathFor(SplitArgs)

\* C9: a string without two slashes in a row bound to a path placeholder
\* gives the path that the list of its pieces between slashes gives, also
\* when it begins or ends with a slash.
C9_StringIsItsSplitNoDouble ==
    (/\ ReturnedURL
     /\ PathBound
     /\ \E i \in PathParams : IsString(Bound(t.paths[i]))
     /\ \A i \in PathParams :
          IsString(Bound(t.paths[i])) => NoDoubleSlash(Bound(t.paths[i]).v))
    => out.url.Path = PathFor(SplitArgs)

\* A string that begins and ends with a slash, before static text.
C9_Witness ==
    /\ ReturnedURL
    /\ Len(t.paths) = 3
    /\ t.paths[2].partType = "param"
    /\ Bound(t.paths[2]) = StrVal(<<"/", "a", "/">>)
    /\ out.url.Path = PathFor(SplitArgs)
    /\ Len(Segments(out.url.Path)) = 3

\* The parametric part p has its argument, of a dynamic type outside T.
BoundOutside(p, T) ==
    p.partType = "param" /\ InRange(args, p.index) /\ Bound(p).t \notin T

\* C11: a protocol, hostname or fragment placeholder bound to anything but a
\* string, a pointer to one or nil, a port placeholder bound to anything but
\* an integer, a pointer to one or nil, and a query set placeholder bound to
\* anything but a url.Values, make the formatter return a format error and
\* the empty URL.
C11_WrongSlotTypeIsError ==
    (/\ Ended
     /\ Parsed
     /\ Covered
     /\ \A i \in 1..Len(args) : ~IsNilPointer(args[i])
     /\ \/ BoundOutside(t.protocol, {"string", "*string", "nil"})
        \/ BoundOutside(t.hostname, {"string", "*string", "nil"})
        \/ BoundOutside(t.fragment, {"string", "*string", "nil"})
        \/ BoundOutside(t.port, {"int", "*int", "nil"})
        \/ \E i \in 1..Len(t.queries) :
             /\ t.queries[i].key = <<>>
             /\ BoundOutside(t.queries[i].value, {"url.Values"}))
    => (pc = "done" /\ out = Returned(EmptyURL, ErrFormatFailed))

\* The elements of a sequence in the order of their first occurrence.
RECURSIVE FirstOccurrences(_, _)
FirstOccurrences(l, acc) ==
    IF l = <<>> THEN acc
    ELSE IF \E i \in 1..Len(acc) : acc[i] = Head(l)
    THEN FirstOccurrences(Tail(l), acc)
    ELSE FirstOccurrences(Tail(l), Append(acc, Head(l)))

\* Entry i of the template's query records a value under its literal key:
\* it is static, or bound to a string, an integer or a non-empty list of them.
Records(i) ==
    \/ t.queries[i].value.partType = "static"
    \/ /\ ValueEntry(i)
       /\ \/ Bound(t.queries[i].value).t \in {"string", "*string", "int", "*int"}
          \/ /\ NonNullList(Bound(t.queries[i].value))
             /\ Bound(t.queries[i].value).v # <<>>

\* Entry i is a query set bound to a url.Values without keys.
EmptySet(i) == SetEntry(i) /\ DOMAIN Bound(t.queries[i].value).v = {}

\* The keys of the entries that record a value, in template order.
RecordedKeys ==
    LET HasKey(q) == q.key # <<>>
    IN  [i \in 1..Len(SelectSeq(t.queries, HasKey)) |-> SelectSeq(t.queries, HasKey)[i].key]

\* The static values of key k, in template order.
StaticValues(k) ==
    LET IsK(q) == q.key = k
    IN  [i \in 1..Len(SelectSeq(t.queries, IsK)) |-> SelectSeq(t.queries, IsK)[i].value.value]

\* C12: in the output query the keys come in the order of their first
\* occurrence in the template, not sorted, and the values of a key in the
\* order in which they were bound.
C12_KeysInFirstOccurrenceOrder ==
    (/\ ReturnedURL
     /\ \A i \in 1..Len(t.queries) : Records(i) \/ EmptySet(i))
    => (/\ FirstOccurrences([i \in 1..Len(out.url.RawQuery) |-> out.url.RawQuery[i][1]], <<>>)
             = FirstOccurrences(RecordedKeys, <<>>)
        /\ \A i \in 1..Len(t.queries) :
             (\A j \in 1..Len(t.queries) :
                 t.queries[j].key = t.queries[i].key
                   => t.queries[j].value.partType = "static")
             => PairValues(out.url.RawQuery, t.queries[i].key) = StaticValues(t.queries[i].key))

\* C13: a template without placeholders that parses, formatted with no
\* argument and no override, is returned as it is: the same scheme, host,
\* port, path, query entries in the same order and fragment.
C13_StaticRoundTrip ==
    (Ended /\ Parsed /\ NumPlaceholders(pattern) = 0)
    => (ReturnedURL /\ URLString(out.url) = pattern)

\* Token i of the token sequence tk is a separator, or lies outside of it.
SeparatorOrEnd(tk, i) ==
    i < 1 \/ i > Len(tk) \/ tk[i].tokenType = "separator"

\* C14: parse succeeds only if every placeholder has a separator, or the
\* start or the end of the template, on each side: a template with a
\* placeholder next to literal text or to another placeholder is rejected.
C14_PlaceholderBetweenSeparators ==
    Parsed =>
        \A i \in 1..Len(Tokenize(pattern)) :
            Tokenize(pattern)[i].tokenType = "placeholder"
              => (/\ SeparatorOrEnd(Tokenize(pattern), i - 1)
                  /\ SeparatorOrEnd(Tokenize(pattern), i + 1))

\* The index of a part when it is parametric.
IndexOf(part) == IF part.partType = "param" THEN <<part.index>> ELSE <<>>

RECURSIVE PathIndices(_)
PathIndices(ps) ==
    IF ps = <<>> THEN <<>> ELSE IndexOf(Head(ps)) \o PathIndices(Tail(ps))

RECURSIVE QueryIndices(_)
QueryIndices(qs) ==
    IF qs = <<>> THEN <<>> ELSE IndexOf(Head(qs).value) \o QueryIndices(Tail(qs))

\* The indices of the parametric slots of a parseResult, in the order
\* protocol, hostname, port, paths, queries, fragment.
SlotIndices(res) ==
    IndexOf(res.protocol) \o IndexOf(res.hostname) \o IndexOf(res.port)
      \o PathIndices(res.paths) \o QueryIndices(res.queries) \o IndexOf(res.fragment)

\* C15: the parametric slots of a parsed template with N placeholders carry
\* the indices 0..N-1, each once, in template order: no placeholder is
\* dropped and none is bound twice.
C15_SlotsCarryEveryIndex ==
    Parsed =>
        SlotIndices(cache[pattern])
          = [i \in 1..NumPlaceholders(pattern) |-> i - 1]

\* Token 1 of the token sequence tk is followed by the separator "://".
SchemeSeparatorSecond(tk) ==
    Len(tk) >= 2 /\ tk[2] = SeparatorToken(SepScheme)

\* C16: a parsed template has a protocol slot only when its first token is
\* literal text or a placeholder and its second token the separator "://";
\* a template whose first token is a separator followed by "://", and a
\* template that starts with "://", do not parse.
C16_ProtocolBinding ==
    Parsed =>
        /\ cache[pattern].protocol.partType # "nil"
             => (/\ SchemeSeparatorSecond(Tokenize(pattern))
                 /\ Tokenize(pattern)[1].tokenType \in {"static", "placeholder"})
        /\ ~(/\ SchemeSeparatorSecond(Tokenize(pattern))
             /\ Tokenize(pattern)[1].tokenType = "separator")
        /\ ~HasPrefix(pattern, SepScheme)

\* parse is over: it returned a parseResult or an error.
ParseEnded == pc \notin {"start", "parse"}

\* The position of the colon after the host in a token sequence that starts
\* with "//" host or with a protocol, "://" and a host; 0 without one.
PortColon(tk) ==
    LET c == IF Len(tk) >= 1 /\ tk[1] = SeparatorToken(SepSlashes) THEN 3
             ELSE IF SchemeSeparatorSecond(tk) /\ tk[1].tokenType # "separator" THEN 4
             ELSE 0
    IN  IF c > 0 /\ Len(tk) >= c /\ tk[c] = SeparatorToken(SepColon)
             /\ tk[c - 1].tokenType # "separator"
        THEN c ELSE 0

\* The value of a text of decimal digits.
RECURSIVE Decimal(_)
Decimal(s) ==
    IF s = <<>> THEN 0
    ELSE 10 * Decimal(SubSeq(s, 1, Len(s) - 1)) + (Ord(s[Len(s)]) - Ord("0"))

\* A text is a decimal integer of the port range.
ValidPort(s) ==
    /\ s # <<>>
    /\ \A i \in 1..Len(s) : s[i] \in {"0", "1", "2", "3", "4", "5", "6", "7", "8", "9"}
    /\ Decimal(s) >= 1
    /\ Decimal(s) <= 65535

\* C17: a template with a literal port after the host parses only if the
\* port is a decimal integer from 1 to 65535, and then the port slot holds
\* that number; a literal port of 0 or 65536, a port that is no number and a
\* colon with nothing after it are parse errors.
C17_StaticPortRange ==
    LET tk == Tokenize(pattern)
        c == PortColon(tk)
    IN  (ParseEnded /\ c > 0) =>
            /\ (Len(tk) = c \/ (tk[c + 1].tokenType = "static" /\ ~ValidPort(tk[c + 1].text)))
                 => (pc = "done" /\ out = Returned(EmptyURL, ErrParseFailed))
            /\ (Parsed /\ tk[c + 1].tokenType = "static")
                 => cache[pattern].port = StaticPart(Decimal(tk[c + 1].text))

\* The largest port parses, and the slot holds it.
C17_Witness ==
    /\ Parsed
    /\ PortColon(Tokenize(pattern)) > 0
    /\ cache[pattern].port = StaticPart(65535)

\* C18: a template with the separator "@" anywhere does not parse, so the
\* username and the password of a parsed template are empty.
C18_NoCredentialsInTemplate ==
    /\ (ParseEnded /\ Contains(pattern, "@"))
         => (pc = "done" /\ out = Returned(EmptyURL, ErrParseFailed))
    /\ Parsed => (cache[pattern].username = <<>> /\ cache[pattern].password = <<>>)

\* The position of the first "://" of s, 0 without one.
SchemeAt(s) ==
    IF \E i \in 1..Len(s) : HasPrefixAt(s, i, SepScheme)
    THEN CHOOSE i \in 1..Len(s) :
             /\ HasPrefixAt(s, i, SepScheme)
             /\ \A j \in 1..(i - 1) : ~HasPrefixAt(s, j, SepScheme)
    ELSE 0

\* The parts of an option [scheme "://"] host [":" port]: the scheme, the
\* authority after it, the host before the first colon of the authority and
\* the port after it.
SchemePart(s) == IF SchemeAt(s) > 0 THEN SubSeq(s, 1, SchemeAt(s) - 1) ELSE <<>>
AuthorityPart(s) == IF SchemeAt(s) > 0 THEN Drop(s, SchemeAt(s) + 2) ELSE s
ColonAt(a) ==
    IF Contains(a, ":")
    THEN CHOOSE i \in 1..Len(a) : a[i] = ":" /\ \A j \in 1..(i - 1) : a[j] # ":"
    ELSE 0
HostPart(s) ==
    IF ColonAt(AuthorityPart(s)) > 0
    THEN SubSeq(AuthorityPart(s), 1, ColonAt(AuthorityPart(s)) - 1)
    ELSE AuthorityPart(s)
PortPart(s) ==
    IF ColonAt(AuthorityPart(s)) > 0
    THEN Drop(AuthorityPart(s), ColonAt(AuthorityPart(s)))
    ELSE <<>>

\* s is [scheme "://"] host [":" port] with a scheme and a host that are not
\* empty and a port of digits that fits 16 bits.
AuthorityOption(s) ==
    /\ SchemeAt(s) > 0 => SchemePart(s) # <<>>
    /\ HostPart(s) # <<>>
    /\ ~Contains(HostPart(s), "/")
    /\ ColonAt(AuthorityPart(s)) > 0
         => (/\ PortPart(s) # <<>>
             /\ \A i \in 1..Len(PortPart(s)) : IsDigit(PortPart(s)[i])
             /\ Decimal(PortPart(s)) <= MaxUint16)

\* Username and Password are both set or both empty.
CredentialsPaired(o) == (o.Username # <<>>) = (o.Password # <<>>)

\* The slots the options ask for, over those of the parsed template.
ExpectedProtocol ==
    IF opt.Protocol # <<>> THEN StaticPart(opt.Protocol)
    ELSE IF SchemePart(opt.Hostname) # <<>> THEN StaticPart(SchemePart(opt.Hostname))
    ELSE ot.protocol
ExpectedHostname ==
    IF opt.Hostname # <<>> THEN StaticPart(HostPart(opt.Hostname)) ELSE ot.hostname
ExpectedPort ==
    IF opt.Port # 0 THEN StaticPart(opt.Port)
    ELSE IF PortPart(opt.Hostname) # <<>> THEN StaticPart(Decimal(PortPart(opt.Hostname)))
    ELSE ot.port

\* C19: a Hostname option [scheme://]host[:port] replaces the protocol, the
\* hostname and the port of the template, each only when the option has that
\* part and whether the slot was static or parametric; a Protocol or Port
\* option wins over the part taken from Hostname, which wins over the
\* template.
C19_OverridePrecedence ==
    (/\ Parsed
     /\ pc \notin {"start", "parse", "overwrite"}
     /\ AuthorityOption(opt.Hostname)
     /\ CredentialsPaired(opt))
    => (/\ t.protocol = ExpectedProtocol
        /\ t.hostname = ExpectedHostname
        /\ t.port = ExpectedPort
        /\ ReturnedURL =>
             /\ ExpectedProtocol.partType = "static" => out.url.Scheme = ExpectedProtocol.value
             /\ (ExpectedHostname.partType = "static" /\ ExpectedPort.partType = "static")
                  => out.url.Host = ExpectedHostname.value \o SepColon \o Itoa(ExpectedPort.value))

\* The text s has the text p somewhere.
HasText(s, p) == \E i \in 1..(Len(s) + 1) : HasPrefixAt(s, i, p)

BothCredentials(o) == o.Username # <<>> /\ o.Password # <<>>
NoCredentials(o) == o.Username = <<>> /\ o.Password = <<>>

Overwritten == Parsed /\ pc \notin {"start", "parse", "overwrite"} /\ t # EmptyResult

\* C21: the template overwrite returns has the paths, the queries and the
\* fragment of its source, and a protocol, hostname or port that differs from
\* the source's only where the options give one (Hostname with that part, or
\* Protocol, or Port); overwrite leaves the source template and the cache as
\* they were.
C21_OverwriteFrame ==
    /\ [](Overwritten =>
            /\ t.paths = ot.paths
            /\ t.queries = ot.queries
            /\ t.fragment = ot.fragment
            /\ t.protocol # ot.protocol
                 => (opt.Protocol # <<>> \/ SchemePart(opt.Hostname) # <<>>)
            /\ t.hostname # ot.hostname => opt.Hostname # <<>>
            /\ t.port # ot.port
                 => (opt.Port # 0 \/ PortPart(opt.Hostname) # <<>>)
            /\ cache[pattern] = ot)
    /\ [][pc = "overwrite" => (ot' = ot /\ cache' = cache)]_vars

\* overwrite replaced the hostname of a template with paths, queries and a
\* fragment, and kept its protocol.
C21_Witness ==
    /\ Overwritten
    /\ t.hostname # ot.hostname
    /\ t.protocol = ot.protocol
    /\ ot.protocol # NilPart
    /\ ot.paths # <<>>
    /\ ot.queries # <<>>
    /\ ot.fragment # NilPart

\* C22: the cache holds an entry for a template only if parse succeeds on it,
\* and the entry is what parse returns; an entry is never removed or changed;
\* and whatever formatters used the template before, a call works on
\* overwrite of parse's template with its own options.
C22_CacheIntegrity ==
    /\ [](\A k \in DOMAIN cache : parse(k) = Ok(cache[k]))
    /\ [][\A k \in DOMAIN cache : k \in DOMAIN cache' /\ cache'[k] = cache[k]]_vars
    /\ []((pc \notin {"start", "parse", "overwrite"} /\ Parsed)
            => /\ ot = parse(pattern).val
               /\ IF t = EmptyResult
                  THEN overwrite(ot, opt).kind # "ok"
                  ELSE overwrite(parse(pattern).val, opt) = Ok(t))

\* A call of the default formatter served from the cache, after calls that
\* cached two templates, is past overwrite.
C22_Witness ==
    /\ Overwritten
    /\ iters = 0
    /\ opt = NoOpt
    /\ ot.protocol.partType = "param"
    /\ Cardinality(DOMAIN cache) > 1

\* C24: a call answered from the cache ends as the call that parses the
\* template ends, with the same URL or the same error, for the same template,
\* arguments and options; so formatting a template twice gives equal results.
C24_CacheHitRepeats ==
    Ended => [pc |-> pc, out |-> out] = EndOf(TryCustomFormatter(opt, pattern, args))

\* A call with options and arguments, answered from the cache, returned a URL.
C24_Witness ==
    /\ ReturnedURL
    /\ iters = 0
    /\ pattern \in DOMAIN cache
    /\ opt.Hostname # <<>>
    /\ args # <<>>

\* C25: what a call returns is a function of its template, arguments and
\* options: in whatever order the keys of a query set are ranged over, the
\* call ends as it does when they are taken in sorted order.
C25_OutputIsFunctionOfInputs ==
    /\ (pc = "query" /\ Parsed)
         => Ok(query) = Queries(SubSeq(t.queries, 1, qi - 1), args, EmptyValues)
    /\ Ended => out = EndOf(TryCustomFormatter(opt, pattern, args)).out

\* The range over a query set of two keys took the greater key first, and the
\* template has the remaining key too.
C25_Witness ==
    /\ pc = "queryset"
    /\ \E k \in pending :
         /\ pending = {k}
         /\ \E j \in DOMAIN query : StrLess(k, j) /\ j \in DOMAIN ArgAt(args, t.queries[qi].value.index).v
         /\ \E i \in 1..Len(t.queries) : t.queries[i].key = k

\* C23: under every interleaving of the callers' loads, parses and stores, a
\* caller that has its template has the whole template parse returns for its
\* own template string, a caller that returned returned what its call alone
\* returns, and every cache entry is what parse returns for its key, also
\* when two callers parsed and stored the same template.
C23_ConcurrentCache ==
    /\ \A k \in DOMAIN cache : parse(k) = Ok(cache[k])
    /\ \A c \in Callers :
         /\ pc[c] \in {"store", "overwrite"} => parse(pattern[c]) = Ok(ot[c])
         /\ pc[c] \in {"done", "panic"}
              => out[c] = EndOf(TryCustomFormatter(opt[c], pattern[c], args[c])).out

\* Both callers parsed the same template: one has stored it and formats, the
\* other is about to store it again.
C23_Witness ==
    /\ pattern[1] = pattern[2]
    /\ pc[1] = "store"
    /\ pc[2] = "overwrite"
    /\ iters[2] > 0
    /\ pattern[1] \in DOMAIN cache
    /\ Cardinality(DOMAIN cache) > 1

\* The place of a parser state in the order of the states.
StepRank(st) ==
    CASE st = "protocol" -> 1
      [] st = "hostname" -> 2
      [] st = "port" -> 3
      [] st = "path" -> 4
      [] st = "query" -> 5
      [] st = "queryKey" -> 6
      [] st = "queryValue" -> 7
      [] st = "fragment" -> 8
      [] st = "invalid" -> 9

\* C26: parse starts in the protocol state; an iteration of its loop leaves
\* the state where it is or moves it forward in the order protocol, hostname,
\* port, path, query, queryKey, queryValue, fragment, invalid, but for
\* queryValue going back to queryKey; after the path state the protocol, the
\* hostname, the port and the paths are not assigned again; and in the invalid
\* state an iteration with a token left returns ErrParseFailed.
C26_ParserStateOrder ==
    /\ [][(pc = "start" /\ pc' = "parse") => step' = "protocol"]_vars
    /\ [][pc = "parse" =>
            /\ \/ StepRank(step') >= StepRank(step)
               \/ (step = "queryValue" /\ step' = "queryKey")
            /\ StepRank(step) > StepRank("path") =>
                 /\ result'.protocol = result.protocol
                 /\ result'.hostname = result.hostname
                 /\ result'.port = result.port
                 /\ result'.paths = result.paths
            /\ (step = "invalid" /\ Len(tokens) > 0) =>
                 (pc' = "done" /\ out' = Returned(EmptyURL, ErrParseFailed))]_vars

\* The parser is back in queryKey after a value, with a token to read.
C26_Witness ==
    /\ pc = "parse"
    /\ step = "queryKey"
    /\ Len(result.queries) > 0
    /\ result.queries[1].value.value # <<>>
    /\ Len(tokens) > 0

\* The parser reads a literal query key: it is in queryKey on a Static token.
AtLiteralKey ==
    pc = "parse" /\ step = "queryKey" /\ Len(tokens) > 0 /\ tokens[1].tokenType = "static"

\* The queries with the entry of the key read and a static empty value.
WithZeroEntry == Append(result.queries, QueryPart(tokens[1].text, StaticPart(<<>>)))

\* The iteration returns ErrParseFailed.
IterationFails == pc' = "done" /\ out' = Returned(EmptyURL, ErrParseFailed)

\* C27: the iteration that reads a literal query key goes to queryValue and
\* records nothing when "=" follows; records the key with a static empty
\* value and stays in queryKey when "&" follows; records it and goes to
\* fragment when "#" follows; records it and ends the parse with success when
\* the key is the last token; and returns ErrParseFailed when any other
\* separator or a placeholder follows.
C27_LiteralKeyTransitions ==
    [][AtLiteralKey =>
         IF Len(tokens) = 1
         THEN /\ pc' = "parse" /\ tokens' = <<>>
              /\ result'.queries = WithZeroEntry
         ELSE IF tokens[2].tokenType = "separator" /\ tokens[2].text = SepEqual
         THEN /\ pc' = "parse" /\ step' = "queryValue"
              /\ tokens' = Drop(tokens, 2)
              /\ result' = result
         ELSE IF tokens[2].tokenType = "separator" /\ tokens[2].text = SepAmp
         THEN /\ pc' = "parse" /\ step' = "queryKey"
              /\ tokens' = Drop(tokens, 2)
              /\ result'.queries = WithZeroEntry
         ELSE IF tokens[2].tokenType = "separator" /\ tokens[2].text = SepHash
         THEN /\ pc' = "parse" /\ step' = "fragment"
              /\ tokens' = Drop(tokens, 2)
              /\ result'.queries = WithZeroEntry
         ELSE IterationFails]_vars

\* The slot of a Static or Placeholder token.
SlotOf(tk) ==
    IF tk.tokenType = "placeholder" THEN ParamPart(tk.index) ELSE StaticPart(tk.text)

\* The parser reads a query value, or a fragment: a token that is no separator.
AtValue ==
    /\ pc = "parse" /\ step = "queryValue"
    /\ Len(tokens) > 0 /\ tokens[1].tokenType # "separator"
AtFragment ==
    /\ pc = "parse" /\ step = "fragment"
    /\ Len(tokens) > 0 /\ tokens[1].tokenType # "separator"

WithValueEntry == Append(result.queries, QueryPart(queryKeyStr, SlotOf(tokens[1])))

\* C28: the iteration that reads a query value records it and goes on to
\* queryKey when "&" follows, to fragment when "#" follows, and to the end
\* when nothing follows, and returns ErrParseFailed when any other token
\* follows; the iteration that reads a fragment binds that one token and any
\* token after it makes the next iteration return ErrParseFailed, as does any
\* token left in the invalid state; a separator where the value or the
\* fragment is read returns ErrParseFailed; so the fragment of a parsed
\* template is the last token of the template, right after "#".
C28_ValueAndFragmentEnd ==
    /\ [][AtValue =>
            IF Len(tokens) = 1
            THEN /\ pc' = "parse" /\ tokens' = <<>>
                 /\ result'.queries = WithValueEntry
            ELSE IF tokens[2].tokenType = "separator" /\ tokens[2].text = SepAmp
            THEN /\ pc' = "parse" /\ step' = "queryKey"
                 /\ tokens' = Drop(tokens, 2)
                 /\ result'.queries = WithValueEntry
            ELSE IF tokens[2].tokenType = "separator" /\ tokens[2].text = SepHash
            THEN /\ pc' = "parse" /\ step' = "fragment"
                 /\ tokens' = Drop(tokens, 2)
                 /\ result'.queries = WithValueEntry
            ELSE IterationFails]_vars
    /\ [][AtFragment =>
            /\ pc' = "parse" /\ step' = "invalid"
            /\ tokens' = Drop(tokens, 1)
            /\ result'.fragment = SlotOf(tokens[1])]_vars
    /\ [][(pc = "parse" /\ step = "invalid" /\ Len(tokens) > 0) => IterationFails]_vars
    /\ [][(/\ pc = "parse" /\ step \in {"queryValue", "fragment"}
           /\ Len(tokens) > 0 /\ tokens[1].tokenType = "separator") => IterationFails]_vars
    /\ []((Parsed /\ cache[pattern].fragment # NilPart) =>
            /\ Len(Tokenize(pattern)) > 1
            /\ Tokenize(pattern)[Len(Tokenize(pattern)) - 1] = SeparatorToken(SepHash)
            /\ Tokenize(pattern)[Len(Tokenize(pattern))].tokenType # "separator"
            /\ cache[pattern].fragment = SlotOf(Tokenize(pattern)[Len(Tokenize(pattern))]))

\* A token is left after the fragment of a template with a query value.
C28_Witness ==
    /\ pc = "parse"
    /\ step = "invalid"
    /\ Len(tokens) > 0
    /\ result.fragment # NilPart
    /\ Len(result.queries) > 0

\* The parser reads literal text in the path state.
AtPathText ==
    /\ pc = "parse" /\ step = "path"
    /\ Len(tokens) > 0 /\ tokens[1].tokenType = "static"

HasAuthority(res) == res.protocol # NilPart \/ res.hostname # NilPart

\* C29: in the path state literal text that is the first path content returns
\* ErrParseFailed when a protocol or a hostname is bound, and is taken as path
\* when neither is; so a parsed template with a protocol or a hostname has no
\* path or a path that begins with "/".
C29_PathAfterAuthority ==
    /\ [][(AtPathText /\ result.paths = <<>>) =>
            IF HasAuthority(result)
            THEN IterationFails
            ELSE /\ pc' = "parse"
                 /\ result'.paths = <<StaticPart(tokens[1].text)>>
                 /\ tokens' = Drop(tokens, 1)]_vars
    /\ []((Parsed /\ HasAuthority(cache[pattern]) /\ cache[pattern].paths # <<>>)
            => /\ cache[pattern].paths[1].partType = "static"
               /\ HasPrefix(cache[pattern].paths[1].value, SepSlash))

\* Literal text follows the authority of a template with a hostname.
C29_Witness ==
    /\ AtPathText
    /\ result.paths = <<>>
    /\ result.hostname # NilPart

\* The text a token stands for in the template.
TokenText(tk) == IF tk.tokenType = "placeholder" THEN Marker ELSE tk.text

RECURSIVE Render(_)
Render(tk) == IF tk = <<>> THEN <<>> ELSE TokenText(Head(tk)) \o Render(Tail(tk))

\* The number of placeholders among the first n tokens.
PlaceholdersBefore(tk, n) ==
    Cardinality({i \in 1..n : tk[i].tokenType = "placeholder"})

\* tk is a token sequence as the tokenizer is to give for the template s.
WellTokenized(s, tk) ==
    /\ Render(tk) = s
    /\ \A i \in 1..Len(tk) :
         /\ tk[i].tokenType = "static" => tk[i].text # <<>>
         /\ tk[i].tokenType = "placeholder" => tk[i].index = PlaceholdersBefore(tk, i - 1)
         /\ i < Len(tk) =>
              /\ ~(tk[i].tokenType = "static" /\ tk[i + 1].tokenType = "static")
              /\ ~(/\ tk[i] = SeparatorToken(SepColon)
                   /\ tk[i + 1] = SeparatorToken(SepSlashes))
              /\ ~(/\ tk[i] = SeparatorToken(SepSlash)
                   /\ tk[i + 1] = SeparatorToken(SepSlash))

\* C30: the tokens of a template, a placeholder written "{}", concatenate to
\* the template; no Static token is empty and no two are adjacent; the
\* placeholders carry 0, 1, 2, ... from left to right; and no ":" token is
\* followed by "//", nor "/" by "/".
C30_TokensCoverTemplate ==
    (pc = "parse" /\ iters = 0) => WellTokenized(pattern, tokens)

\* parse starts on tokens with "://" followed by "/", and a placeholder.
C30_Witness ==
    /\ pc = "parse"
    /\ iters = 0
    /\ \E i \in 1..(Len(tokens) - 1) :
         tokens[i] = SeparatorToken(SepScheme) /\ tokens[i + 1] = SeparatorToken(SepSlash)
    /\ \E i \in 1..Len(tokens) : tokens[i] = PlaceholderToken(0)

\* C31: in the paths of a parsed template no two adjacent entries are static,
\* and every parametric entry comes right after a static entry that ends
\* with "/".
C31_PathListShape ==
    Parsed =>
      \A i \in 1..Len(cache[pattern].paths) :
        /\ (i > 1 /\ cache[pattern].paths[i].partType = "static")
             => cache[pattern].paths[i - 1].partType # "static"
        /\ cache[pattern].paths[i].partType = "param"
             => /\ i > 1
                /\ cache[pattern].paths[i - 1].partType = "static"
                /\ HasSuffix(cache[pattern].paths[i - 1].value, SepSlash)

\* A parsed template has literal path text of several tokens in one entry,
\* then a parametric entry, then a static one.
C31_Witness ==
    /\ Parsed
    /\ Len(cache[pattern].paths) = 3
    /\ Len(cache[pattern].paths[1].value) > 2
    /\ cache[pattern].paths[2].partType = "param"
    /\ cache[pattern].paths[3].partType = "static"

\* C32: the port of a returned URL, the text after the colon of its host, is
\* a decimal integer from 1 to 65535, whether it comes from a literal of the
\* template, an integer argument, the Port option or the Hostname option.
C32_OutputPortInRange ==
    (ReturnedURL /\ Contains(out.url.Host, ":")) => ValidPort(PortPart(out.url.Host))

\* The texts of the Static tokens in query-key position, right after "?" or
\* "&", in their order.
RECURSIVE KeyTokens(_, _)
KeyTokens(tk, i) ==
    IF i > Len(tk) THEN <<>>
    ELSE IF /\ tk[i].tokenType = "static"
            /\ tk[i - 1] \in {SeparatorToken(SepQuestion), SeparatorToken(SepAmp)}
    THEN <<tk[i].text>> \o KeyTokens(tk, i + 1)
    ELSE KeyTokens(tk, i + 1)

\* The keys of the entries of a queries list that have one, in their order.
RECURSIVE EntryKeys(_)
EntryKeys(qs) ==
    IF qs = <<>> THEN <<>>
    ELSE IF Head(qs).key # <<>> THEN <<Head(qs).key>> \o EntryKeys(Tail(qs))
    ELSE EntryKeys(Tail(qs))

\* C33: in a parsed template every Static token in query-key position is the
\* key of exactly one entry of queries, in the order of the tokens, also a
\* key followed by "=" and the end of the template.
C33_NoLiteralKeyLost ==
    Parsed => EntryKeys(cache[pattern].queries) = KeyTokens(Tokenize(pattern), 2)

\* The call binds one non-null string or integer to the value placeholder of
\* a literal key.
ScalarValueCall ==
    /\ pattern \in ValueTemplates
    /\ Len(args) = 1
    /\ args[1].t \in {"string", "*string", "int", "*int"}

\* C34: a call that binds a non-null string or integer v to the value
\* placeholder of a literal key returns what the call that binds the list of
\* the one element v returns, also when the template has earlier entries of
\* the same key.
C34_ScalarAsSingletonList ==
    (Ended /\ ScalarValueCall)
      => out = EndOf(TryCustomFormatter(opt, pattern, <<SliceVal(args)>>)).out

\* The call is about to decompose a Hostname option that is given.
AtHostnameOption == pc = "overwrite" /\ opt.Hostname # <<>>

\* C35: the override step of a call whose options give a Hostname, whatever
\* the string (also one beginning with ':' or carrying a port above 65535),
\* ends in a template or in an error the call returns; it never aborts the
\* call.
C35_OverrideTotal ==
    [][AtHostnameOption =>
         /\ pc' # "panic"
         /\ pc' = "done" => (out'.returned /\ out'.err = ErrParseFailed)]_vars

====
